---------------------------- MODULE Spec2Model ----------------------------
(***************************************************************************)
(* BF6 Voice Switcher (src/src/main.rs): the backup / restore / delete     *)
(* handlers of BF6VoiceSwitcher over a model of the file system.           *)
(*                                                                         *)
(* The file system is one tree.  A path is a sequence of names from the    *)
(* drive root; a node is a file, an ordinary directory, a junction (a      *)
(* directory link holding an absolute target path) or absent.              *)
(***************************************************************************)
EXTENDS Naturals, Integers, Sequences, FiniteSets, TLC

(***************************************************************************)
(* Bounds of the model.                                                    *)
(***************************************************************************)
\* how many junctions one path lookup follows before it gives up
MaxLinkHops == 2
\* the environment may fail the I/O step of the 1st .. MaxFaultIdx-th entry
MaxFaultIdx == 2
\* how many handlers one run of the program executes; the clicks that
\* select a language, a backup or a folder are followed while one can run
MaxOps == 2

(***************************************************************************)
(* The language catalogue.                                                 *)
(***************************************************************************)
lang_codes == <<"en", "ja", "cn", "de", "fr", "es", "ru", "ko">>

languages == {lang_codes[i] : i \in 1..Len(lang_codes)}

(***************************************************************************)
(* File-system nodes.                                                      *)
(***************************************************************************)
NoEnts == <<>>

Absent == [kind |-> "none", data |-> <<>>, ents |-> NoEnts, target |-> <<>>]

File(d) == [kind |-> "file", data |-> d, ents |-> NoEnts, target |-> <<>>]

Dir(e) == [kind |-> "dir", data |-> <<>>, ents |-> e, target |-> <<>>]

Link(t) == [kind |-> "link", data |-> <<>>, ents |-> NoEnts, target |-> t]

\* a path no directory holds: the result of a lookup that cannot be resolved
BadPath == <<"?">>

Parent(p) == SubSeq(p, 1, Len(p) - 1)

IsPrefix(p, q) == Len(p) <= Len(q) /\ SubSeq(q, 1, Len(p)) = p

\* the node at p, no junction followed
RECURSIVE RawAt(_, _)
RawAt(n, p) ==
    IF p = <<>> THEN n
    ELSE IF n.kind = "dir" /\ Head(p) \in DOMAIN n.ents
         THEN RawAt(n.ents[Head(p)], Tail(p))
         ELSE Absent

\* the tree with the node at p (a path without junctions) replaced by new
RECURSIVE Put(_, _, _)
Put(n, p, new) ==
    IF p = <<>> THEN new
    ELSE LET h == Head(p)
             old == IF h \in DOMAIN n.ents THEN n.ents[h] ELSE Absent
         IN Dir([k \in DOMAIN n.ents \cup {h} |->
                    IF k = h THEN Put(old, Tail(p), new) ELSE n.ents[k]])

\* the tree without the entry at p (a path without junctions)
RECURSIVE Del(_, _)
Del(n, p) ==
    IF p = <<>> \/ n.kind # "dir" \/ Head(p) \notin DOMAIN n.ents THEN n
    ELSE IF Len(p) = 1
         THEN Dir([k \in DOMAIN n.ents \ {Head(p)} |-> n.ents[k]])
         ELSE Dir([n.ents EXCEPT ![Head(p)] = Del(@, Tail(p))])

\* the junction-free path that rest names below done, at is the node at
\* done: a junction in the middle of a path is always followed, the last
\* one only with followLast
RECURSIVE Real(_, _, _, _, _, _)
Real(F, at, done, rest, followLast, fuel) ==
    IF rest = <<>> THEN done
    ELSE LET h == Head(rest)
             n == IF at.kind = "dir" /\ h \in DOMAIN at.ents THEN at.ents[h] ELSE Absent
             more == Tail(rest) # <<>>
         IN CASE n.kind = "link" /\ (more \/ followLast) ->
                    IF fuel = 0 THEN BadPath
                    ELSE Real(F, F, <<>>, n.target \o Tail(rest), followLast, fuel - 1)
              [] n.kind \in {"none", "file"} /\ more -> BadPath
              [] OTHER -> Real(F, n, Append(done, h), Tail(rest), followLast, fuel)

RealPath(F, p, followLast) == Real(F, F, <<>>, p, followLast, MaxLinkHops)

\* fs::metadata: follows a final junction
Stat(F, p) == RawAt(F, RealPath(F, p, TRUE))

\* fs::symlink_metadata: does not follow a final junction
LStat(F, p) == RawAt(F, RealPath(F, p, FALSE))

exists(F, p) == Stat(F, p).kind # "none"

is_dir(F, p) == Stat(F, p).kind = "dir"

\* metadata.file_attributes() & FILE_ATTRIBUTE_REPARSE_POINT != 0
is_junction(F, p) == LStat(F, p).kind = "link"


(***************************************************************************)
(* Directory listing.  fs::read_dir yields entries in an order the         *)
(* platform chooses; the model lists them in NameOrder, or in its reverse  *)
(* when rev is set.                                                        *)
(***************************************************************************)
FolderNames(lang_code) == {lang_code, "vo" \o lang_code}

TocNames(lang_code) == {lang_code \o ".toc", "vo" \o lang_code \o ".toc"}

InfoName == "backup_info.txt"

NameOrder ==
    <<"a", InfoName, "s.bin", "x", "zz">>
    \o [i \in 1..(4 * Len(lang_codes)) |->
          LET c == lang_codes[((i - 1) \div 4) + 1]
              k == (i - 1) % 4
          IN CASE k = 0 -> c
               [] k = 1 -> c \o ".toc"
               [] k = 2 -> "vo" \o c
               [] OTHER -> "vo" \o c \o ".toc"]

Reverse(s) == [i \in 1..Len(s) |-> s[Len(s) + 1 - i]]

\* the names of directory node d, in listing order
ReadDir(d, rev) ==
    LET asc == SelectSeq(NameOrder, LAMBDA n : n \in DOMAIN d.ents)
    IN IF rev THEN Reverse(asc) ELSE asc

(***************************************************************************)
(* find_voice_files: the recursive scan for the folders and .toc files of  *)
(* one language.  The result holds two vectors of paths relative to root.  *)
(***************************************************************************)
NoScan == [folders |-> <<>>, toc_files |-> <<>>]

\* path.is_dir() || Self::is_junction(&path)
IsDirEntry(F, path) == is_dir(F, path) \/ is_junction(F, path)

DescendsIntoLinks(F, path) == TRUE

\* whether the scan goes into the directory at path
Descends(F, path) == ~is_junction(F, path)

KeepPrefix(root, path) == path

\* path.strip_prefix(root)
StripPrefix(root, path) == SubSeq(path, Len(root) + 1, Len(path))

RECURSIVE find_voice_files_recursive(_, _, _, _, _, _, _)
RECURSIVE ScanEntries(_, _, _, _, _, _, _, _)
\* the body of the loop over the entries of current, names being those left
ScanEntries(F, root, current, names, folder_names, toc_names, rev, acc) ==
    IF names = <<>> THEN acc
    ELSE LET name == Head(names)
             path == Append(current, name)
             dirLike == IsDirEntry(F, path)
             rel == StripPrefix(root, path)
             acc1 ==
                 IF dirLike
                 THEN IF name \in folder_names
                      THEN [acc EXCEPT !.folders = Append(@, rel)]
                      ELSE IF Descends(F, path)
                           THEN find_voice_files_recursive(
                                    F, root, path, folder_names, toc_names, rev, acc)
                           ELSE acc
                 ELSE IF name \in toc_names
                      THEN [acc EXCEPT !.toc_files = Append(@, rel)]
                      ELSE acc
         IN ScanEntries(F, root, current, Tail(names),
                        folder_names, toc_names, rev, acc1)

find_voice_files_recursive(F, root, current, folder_names, toc_names, rev, acc) ==
    LET d == Stat(F, current)
    IN IF d.kind # "dir" THEN acc
       ELSE ScanEntries(F, root, current, ReadDir(d, rev),
                        folder_names, toc_names, rev, acc)

find_voice_files(F, root, lang_code, rev) ==
    find_voice_files_recursive(F, root, root, FolderNames(lang_code),
                               TocNames(lang_code), rev, NoScan)

Range(s) == {s[i] : i \in 1..Len(s)}

(***************************************************************************)
(* The file-system calls the handlers make.  Each yields [ok, fs]: whether *)
(* the call succeeded and the tree after it.  A failed call leaves the     *)
(* tree as it was.                                                         *)
(***************************************************************************)
Ok(F) == [ok |-> TRUE, fs |-> F]

Err(F) == [ok |-> FALSE, fs |-> F]

\* fs::create_dir_all: creates every missing component; fails on a
\* component that exists and is no directory
RECURSIVE create_dir_all(_, _)
create_dir_all(F, p) ==
    IF p = <<>> \/ is_dir(F, p) THEN Ok(F)
    ELSE IF LStat(F, p).kind # "none" THEN Err(F)
    ELSE LET r == create_dir_all(F, Parent(p))
         IN IF ~r.ok THEN Err(F)
            ELSE LET q == RealPath(r.fs, p, FALSE)
                 IN IF q = BadPath THEN Err(F) ELSE Ok(Put(r.fs, q, Dir(NoEnts)))

\* fs::remove_dir_all: removes the directory and all below it; a junction
\* is removed as a link, its target kept
remove_dir_all(F, p) ==
    LET q == RealPath(F, p, FALSE)
    IN IF RawAt(F, q).kind \in {"dir", "link"} THEN Ok(Del(F, q)) ELSE Err(F)

\* the tree below node n as a reader following junctions sees it; what
\* cannot be resolved shows as Absent
RECURSIVE Resolved(_, _, _)
Resolved(F, n, fuel) ==
    CASE n.kind = "link" ->
            IF fuel = 0 THEN Absent ELSE Resolved(F, Stat(F, n.target), fuel - 1)
      [] n.kind = "dir" -> Dir([k \in DOMAIN n.ents |-> Resolved(F, n.ents[k], fuel)])
      [] OTHER -> n

RECURSIVE HasAbsent(_)
HasAbsent(n) ==
    \/ n.kind = "none"
    \/ n.kind = "dir" /\ \E k \in DOMAIN n.ents : HasAbsent(n.ents[k])

\* whether new can be written over old: a file never replaces a directory
\* nor a directory a file
RECURSIVE Mergeable(_, _)
Mergeable(old, new) ==
    CASE old.kind = "none" -> TRUE
      [] new.kind = "file" -> old.kind = "file"
      [] OTHER -> /\ old.kind = "dir"
                  /\ \A k \in DOMAIN new.ents \cap DOMAIN old.ents :
                        Mergeable(old.ents[k], new.ents[k])

RECURSIVE Merge(_, _)
Merge(old, new) ==
    IF old.kind # "dir" \/ new.kind # "dir" THEN new
    ELSE Dir([k \in DOMAIN old.ents \cup DOMAIN new.ents |->
                 IF k \notin DOMAIN new.ents THEN old.ents[k]
                 ELSE IF k \notin DOMAIN old.ents THEN new.ents[k]
                 ELSE Merge(old.ents[k], new.ents[k])])

\* fs_extra::dir::copy(from, to, overwrite): copies directory from, with
\* all below it, to to/<name of from>
dir_copy(F, from, to) ==
    LET content == Resolved(F, Stat(F, from), MaxLinkHops)
        dst == RealPath(F, Append(to, from[Len(from)]), TRUE)
        old == RawAt(F, dst)
    IN IF /\ is_dir(F, from)
          /\ ~HasAbsent(content)
          /\ is_dir(F, to)
          /\ dst # BadPath
          /\ Mergeable(old, content)
       THEN Ok(Put(F, dst, Merge(old, content)))
       ELSE Err(F)

\* fs::copy: copies file from to file to, replacing it
fs_copy(F, from, to) ==
    LET src == Stat(F, from)
        dst == RealPath(F, to, TRUE)
    IN IF /\ src.kind = "file"
          /\ dst # BadPath
          /\ is_dir(F, Parent(to))
          /\ RawAt(F, dst).kind \in {"none", "file"}
       THEN Ok(Put(F, dst, File(src.data)))
       ELSE Err(F)

\* fs::write: creates or replaces the file at p
fs_write(F, p, data) ==
    LET dst == RealPath(F, p, TRUE)
    IN IF /\ dst # BadPath
          /\ is_dir(F, Parent(p))
          /\ RawAt(F, dst).kind \in {"none", "file"}
       THEN Ok(Put(F, dst, File(data)))
       ELSE Err(F)

\* fs::remove_file
remove_file(F, p) ==
    LET q == RealPath(F, p, FALSE)
    IN IF RawAt(F, q).kind = "file" THEN Ok(Del(F, q)) ELSE Err(F)

\* a link command that puts the junction in place of whatever is at dst
mklink_replaces(F, src, dst) ==
    LET q == RealPath(F, dst, FALSE)
    IN IF q # BadPath /\ is_dir(F, Parent(dst))
       THEN Ok(Put(F, q, Link(src)))
       ELSE Err(F)

\* cmd /C mklink /J dst src: fails when dst exists or its parent does not
mklink(F, src, dst) ==
    LET q == RealPath(F, dst, FALSE)
    IN IF q # BadPath /\ RawAt(F, q).kind = "none" /\ is_dir(F, Parent(dst))
       THEN Ok(Put(F, q, Link(src)))
       ELSE Err(F)

\* cmd /C rmdir path: removes a junction or an empty directory
rmdir(F, p) ==
    LET q == RealPath(F, p, FALSE)
        n == RawAt(F, q)
    IN IF n.kind = "link" \/ (n.kind = "dir" /\ DOMAIN n.ents = {})
       THEN Ok(Del(F, q))
       ELSE Err(F)

(***************************************************************************)
(* Failures of the environment.  A handler is run with one fault: the      *)
(* I/O step of that kind fails for the entry with that index, for a cause  *)
(* outside the tree (access denied, disk full, the file in use).           *)
(***************************************************************************)
NoFault == [kind |-> "none", idx |-> 0]

FaultKinds == {"rmtree", "mkdir", "copydir", "copyfile", "write", "mklink",
               "rmdir_spawn", "rmdir_exit", "rmfile", "readinfo"}

Hit(f, kind, i) == f.kind = kind /\ f.idx = i

(***************************************************************************)
(* Junctions through cmd.exe.                                              *)
(***************************************************************************)
create_junction_to_parent(F, src, dst, f, i) ==
    IF Hit(f, "mklink", i) THEN Err(F) ELSE mklink(F, Parent(src), dst)

\* create_junction: Ok exactly when mklink ran and exited with success
create_junction(F, src, dst, f, i) ==
    IF Hit(f, "mklink", i) THEN Err(F) ELSE mklink(F, src, dst)

\* remove_junction: Err only when cmd could not be started; the exit
\* status of rmdir is not looked at
remove_junction_keeps(F, path, f, i) == Ok(F)

remove_junction(F, path, f, i) ==
    IF Hit(f, "rmdir_spawn", i) THEN Err(F)
    ELSE IF Hit(f, "rmdir_exit", i) THEN Ok(F)
    ELSE Ok(rmdir(F, path).fs)

(***************************************************************************)
(* Text.  A text is a sequence of lines, a line a sequence of atoms        *)
(* (strings that are never split), so that "build_id=100" is the line      *)
(* <<"build_id=", "100">>.                                                 *)
(***************************************************************************)
RECURSIVE Concat(_)
Concat(atoms) == IF atoms = <<>> THEN "" ELSE Head(atoms) \o Concat(Tail(atoms))

RECURSIVE JoinStr(_, _)
JoinStr(strs, sep) ==
    IF strs = <<>> THEN ""
    ELSE IF Len(strs) = 1 THEN strs[1]
    ELSE strs[1] \o sep \o JoinStr(Tail(strs), sep)

\* PathBuf::to_string_lossy of a relative path
PathStr(p) == JoinStr(p, "\\")

\* l.trim_start_matches("build_id="): every leading repetition is removed
RECURSIVE TrimBuildId(_)
TrimBuildId(line) ==
    IF line # <<>> /\ Head(line) = "build_id="
    THEN TrimBuildId(Tail(line))
    ELSE Concat(line)

\* content.lines().find(|l| l.starts_with("build_id=")).map(trim).unwrap_or_default()
RECURSIVE ReadBuildId(_)
ReadBuildId(text) ==
    IF text = <<>> THEN ""
    ELSE IF Head(text) # <<>> /\ Head(Head(text)) = "build_id="
         THEN TrimBuildId(Head(text))
         ELSE ReadBuildId(Tail(text))

\* the content of backup_info.txt
InfoContent(build_id, lang_code, voice_folders, toc_files) ==
    << <<"build_id=", build_id>>,
       <<"lang_code=", lang_code>>,
       <<"folders=", JoinStr([i \in 1..Len(voice_folders) |-> PathStr(voice_folders[i])], ";")>>,
       <<"toc_files=", JoinStr([i \in 1..Len(toc_files) |-> PathStr(toc_files[i])], ";")>> >>

(***************************************************************************)
(* The application state besides the tree.                                 *)
(***************************************************************************)
backup_dir == <<"voice_backups">>

None == [some |-> FALSE, game_path |-> <<>>, build_id |-> ""]

Some(game_path, build_id) ==
    [some |-> TRUE, game_path |-> game_path, build_id |-> build_id]

BackupInfo(lang_code, build_id) == [lang_code |-> lang_code, build_id |-> build_id]

\* status_message: which message, and the values it is formatted with
Msg(kind, n1, n2, s1, s2) == [kind |-> kind, n1 |-> n1, n2 |-> n2, s1 |-> s1, s2 |-> s2]

NoMsg == Msg("", 0, 0, "", "")

\* a listing that keeps every directory, whatever its name
RECURSIVE ReadAllDirs(_, _, _, _)
ReadAllDirs(F, names, f, i) ==
    IF names = <<>> THEN <<>>
    ELSE LET path == Append(backup_dir, Head(names))
             info == Stat(F, Append(path, InfoName))
             build_id == IF info.kind = "file" /\ ~Hit(f, "readinfo", i)
                         THEN ReadBuildId(info.data)
                         ELSE ""
             rest == ReadAllDirs(F, Tail(names), f, i + 1)
         IN IF is_dir(F, path) THEN <<BackupInfo(Head(names), build_id)>> \o rest ELSE rest

\* refresh_backups: the list read from the backup directory
RECURSIVE ReadBackups(_, _, _, _)
ReadBackups(F, names, f, i) ==
    IF names = <<>> THEN <<>>
    ELSE LET name == Head(names)
             path == Append(backup_dir, name)
             info == Stat(F, Append(path, InfoName))
             build_id == IF info.kind = "file" /\ ~Hit(f, "readinfo", i)
                         THEN ReadBuildId(info.data)
                         ELSE ""
             rest == ReadBackups(F, Tail(names), f, i + 1)
         IN IF is_dir(F, path) /\ name \in languages
            THEN <<BackupInfo(name, build_id)>> \o rest
            ELSE rest

refresh_backups(F, f, rev) ==
    LET d == Stat(F, backup_dir)
    IN IF d.kind = "dir" THEN ReadBackups(F, ReadDir(d, rev), f, 1) ELSE <<>>

(***************************************************************************)
(* The handlers as functions of the state they read.  Each yields the tree *)
(* after the handler, the message it leaves, is_error, the scan it made    *)
(* and whether it ended in refresh_backups.                                *)
(***************************************************************************)
Outcome(F, msg, err, scan, refresh) ==
    [fs |-> F, msg |-> msg, is_error |-> err, scan |-> scan, refresh |-> refresh]

Loop(F, ok, n, msg) == [fs |-> F, ok |-> ok, n |-> n, msg |-> msg]

\* a folder loop that goes on with the next folder after a failed copy
RECURSIVE BackupFoldersKeepGoing(_, _, _, _, _, _)
BackupFoldersKeepGoing(F, source, target, voice_folders, i, f) ==
    IF i > Len(voice_folders) THEN Loop(F, TRUE, i - 1, NoMsg)
    ELSE LET rel_path == voice_folders[i]
             src_folder == source \o rel_path
             dst_parent == target \o Parent(rel_path)
             made == IF Hit(f, "mkdir", i) THEN Err(F) ELSE create_dir_all(F, dst_parent)
             copied == IF Hit(f, "copydir", i) THEN Err(made.fs)
                       ELSE dir_copy(made.fs, src_folder, dst_parent)
             rest == BackupFoldersKeepGoing(copied.fs, source, target, voice_folders, i + 1, f)
         IN IF ~made.ok
            THEN Loop(F, FALSE, i - 1, Msg("CreateDirFailed", 0, 0, "", ""))
            ELSE IF ~copied.ok
            THEN Loop(rest.fs, FALSE, i - 1, Msg("BackupFailed", 0, 0, PathStr(rel_path), ""))
            ELSE rest

\* backup_files, the loop over voice_folders from entry i on
RECURSIVE BackupFolders(_, _, _, _, _, _)
BackupFolders(F, source, target, voice_folders, i, f) ==
    IF i > Len(voice_folders) THEN Loop(F, TRUE, i - 1, NoMsg)
    ELSE LET rel_path == voice_folders[i]
             src_folder == source \o rel_path
             dst_parent == target \o Parent(rel_path)
             made == IF Hit(f, "mkdir", i) THEN Err(F) ELSE create_dir_all(F, dst_parent)
             copied == IF Hit(f, "copydir", i) THEN Err(made.fs)
                       ELSE dir_copy(made.fs, src_folder, dst_parent)
         IN IF ~made.ok
            THEN Loop(F, FALSE, i - 1, Msg("CreateDirFailed", 0, 0, "", ""))
            ELSE IF ~copied.ok
            THEN Loop(made.fs, FALSE, i - 1, Msg("BackupFailed", 0, 0, PathStr(rel_path), ""))
            ELSE BackupFolders(copied.fs, source, target, voice_folders, i + 1, f)

\* backup_files, the loop over toc_files from entry i on
RECURSIVE BackupTocFiles(_, _, _, _, _, _)
BackupTocFiles(F, source, target, toc_files, i, f) ==
    IF i > Len(toc_files) THEN Loop(F, TRUE, i - 1, NoMsg)
    ELSE LET rel_path == toc_files[i]
             src_file == source \o rel_path
             dst_file == target \o rel_path
             made == create_dir_all(F, Parent(dst_file))
             copied == IF Hit(f, "copyfile", i) THEN Err(made.fs)
                       ELSE fs_copy(made.fs, src_file, dst_file)
         IN IF ~made.ok
            THEN Loop(F, FALSE, i - 1, Msg("CreateDirFailed", 0, 0, "", ""))
            ELSE IF ~copied.ok
            THEN Loop(made.fs, FALSE, i - 1, Msg("BackupFailed", 0, 0, PathStr(rel_path), ""))
            ELSE BackupTocFiles(copied.fs, source, target, toc_files, i + 1, f)

IncompleteNever(scan) == FALSE

\* backup_files: only .toc files were found, the backup is not made
Incomplete(scan) == scan.folders = <<>>

\* the write of backup_info.txt, its result dropped (let _ =)
WriteInfo(F, target, content, f) ==
    IF Hit(f, "write", 1) THEN F ELSE fs_write(F, Append(target, InfoName), content).fs

KeepOldBackup(F, target, f) == Ok(F)

\* backup_files: the old backup of the language is removed first
RemoveOldBackup(F, target, f) ==
    IF exists(F, target)
    THEN IF Hit(f, "rmtree", 1) THEN Err(F) ELSE remove_dir_all(F, target)
    ELSE Ok(F)

BackupRun(F, source, lang_code, info, f, rev) ==
    LET target == Append(backup_dir, lang_code)
        scan == find_voice_files(F, source, lang_code, rev)
        cleaned == RemoveOldBackup(F, target, f)
        folders == BackupFolders(cleaned.fs, source, target, scan.folders, 1, f)
        files == BackupTocFiles(folders.fs, source, target, scan.toc_files, 1, f)
        build_id == IF info.some THEN info.build_id ELSE ""
        written == WriteInfo(files.fs, target,
                       InfoContent(build_id, lang_code, scan.folders, scan.toc_files), f)
    IN CASE source = <<>> ->
                Outcome(F, Msg("SelectFolderFirst", 0, 0, "", ""), TRUE, NoScan, FALSE)
         [] source # <<>> /\ ~exists(F, source) ->
                Outcome(F, Msg("FolderMissing", 0, 0, "", ""), TRUE, NoScan, FALSE)
         [] OTHER ->
            IF scan.folders = <<>> /\ scan.toc_files = <<>>
            THEN Outcome(F, Msg("NoVoiceFiles", 0, 0, lang_code, ""), TRUE, scan, FALSE)
            ELSE IF Incomplete(scan)
            THEN Outcome(F, Msg("Incomplete", 0, 0, lang_code, ""), TRUE, scan, FALSE)
            ELSE IF ~cleaned.ok
            THEN Outcome(F, Msg("RemoveOldFailed", 0, 0, "", ""), TRUE, scan, FALSE)
            ELSE IF ~folders.ok
            THEN Outcome(folders.fs, folders.msg, TRUE, scan, FALSE)
            ELSE IF ~files.ok
            THEN Outcome(files.fs, files.msg, TRUE, scan, FALSE)
            ELSE Outcome(written,
                         Msg("BackupDone", folders.n, files.n, lang_code, build_id),
                         FALSE, scan, TRUE)

VersionNeverBlocked(backup_info, info) == FALSE

VersionBlockedWhenEqual(backup_info, info) ==
    info.some /\ backup_info.build_id # "" /\ backup_info.build_id = info.build_id

\* restore_files, the version check: whether the restore is stopped
VersionBlocked(backup_info, info) ==
    info.some /\ backup_info.build_id # "" /\ backup_info.build_id # info.build_id

\* restore_files, the loop over voice_folders from entry i on
RECURSIVE RestoreFolders(_, _, _, _, _, _)
RestoreFolders(F, backup_path, target, voice_folders, i, f) ==
    IF i > Len(voice_folders) THEN Loop(F, TRUE, i - 1, NoMsg)
    ELSE LET rel_path == voice_folders[i]
             src_folder == backup_path \o rel_path
             dst_parent == target \o Parent(rel_path)
             dst_folder == target \o rel_path
             unlinked == IF is_junction(F, dst_folder)
                         THEN remove_junction(F, dst_folder, f, i).fs
                         ELSE F
             made == IF Hit(f, "mkdir", i) THEN Err(unlinked)
                     ELSE create_dir_all(unlinked, dst_parent)
             linked == create_junction(made.fs, src_folder, dst_folder, f, i)
         IN IF ~made.ok
            THEN Loop(unlinked, FALSE, i - 1, Msg("CreateDirFailed", 0, 0, "", ""))
            ELSE IF ~linked.ok
            THEN Loop(made.fs, FALSE, i - 1, Msg("LinkFailed", 0, 0, PathStr(rel_path), ""))
            ELSE RestoreFolders(linked.fs, backup_path, target, voice_folders, i + 1, f)

\* restore_files, the loop over toc_files from entry i on
RECURSIVE RestoreTocFiles(_, _, _, _, _, _)
RestoreTocFiles(F, backup_path, target, toc_files, i, f) ==
    IF i > Len(toc_files) THEN Loop(F, TRUE, i - 1, NoMsg)
    ELSE LET rel_path == toc_files[i]
             src_file == backup_path \o rel_path
             dst_file == target \o rel_path
             made == create_dir_all(F, Parent(dst_file))
             copied == IF Hit(f, "copyfile", i) THEN Err(made.fs)
                       ELSE fs_copy(made.fs, src_file, dst_file)
         IN IF ~made.ok
            THEN Loop(F, FALSE, i - 1, Msg("CreateDirFailed", 0, 0, "", ""))
            ELSE IF ~copied.ok
            THEN Loop(made.fs, FALSE, i - 1, Msg("RestoreFailed", 0, 0, PathStr(rel_path), ""))
            ELSE RestoreTocFiles(copied.fs, backup_path, target, toc_files, i + 1, f)

\* restore_files, the message after the two loops
RestoreEnd(success, failure, restored_folders, restored_files, lang_code) ==
    IF success /\ (restored_folders > 0 \/ restored_files > 0)
    THEN [msg |-> Msg("Restored", restored_folders, restored_files, lang_code, ""),
          is_error |-> FALSE]
    ELSE IF restored_folders = 0 /\ restored_files = 0
    THEN [msg |-> Msg("NothingInBackup", 0, 0, "", ""), is_error |-> TRUE]
    ELSE [msg |-> failure, is_error |-> TRUE]

RestoreRun(F, source, backups, idx, info, f, rev) ==
    LET backup_info == backups[idx + 1]
        backup_path == Append(backup_dir, backup_info.lang_code)
        target == source
        scan == find_voice_files(F, backup_path, backup_info.lang_code, rev)
        folders == RestoreFolders(F, backup_path, target, scan.folders, 1, f)
        files == IF folders.ok
                 THEN RestoreTocFiles(folders.fs, backup_path, target, scan.toc_files, 1, f)
                 ELSE Loop(folders.fs, FALSE, 0, folders.msg)
        end == RestoreEnd(files.ok, files.msg, folders.n, files.n, backup_info.lang_code)
    IN CASE source = <<>> ->
                Outcome(F, Msg("SelectGameFolderFirst", 0, 0, "", ""), TRUE, NoScan, FALSE)
         [] source # <<>> /\ backups = <<>> ->
                Outcome(F, Msg("NoBackups", 0, 0, "", ""), TRUE, NoScan, FALSE)
         [] OTHER ->
            IF ~exists(F, backup_path)
            THEN Outcome(F, Msg("BackupMissing", 0, 0, "", ""), TRUE, NoScan, FALSE)
            ELSE IF VersionBlocked(backup_info, info)
            THEN Outcome(F, Msg("VersionMismatch", 0, 0, backup_info.build_id, info.build_id),
                         TRUE, NoScan, FALSE)
            ELSE Outcome(files.fs, end.msg, end.is_error, scan, FALSE)

\* check_version_match: the two build ids when they differ, else nothing
NoMismatch == <<>>

check_version_match_strict(backups, idx, info) ==
    IF backups = <<>> THEN NoMismatch
    ELSE LET backup == backups[idx + 1]
         IN IF info.some /\ backup.build_id # info.build_id
            THEN <<backup.build_id, info.build_id>>
            ELSE NoMismatch

check_version_match(backups, idx, info) ==
    IF backups = <<>> THEN NoMismatch
    ELSE LET backup == backups[idx + 1]
         IN IF info.some /\ ~(backup.build_id = "") /\ backup.build_id # info.build_id
            THEN <<backup.build_id, info.build_id>>
            ELSE NoMismatch

RemovesAnyFolder(F, folder_path) == TRUE

\* delete_voice_files: only a junction is removed
IsRemovable(F, folder_path) == is_junction(F, folder_path)

\* delete_voice_files, the loop over voice_folders from entry i on
RECURSIVE DeleteJunctions(_, _, _, _, _, _)
DeleteJunctions(F, source, voice_folders, i, n, f) ==
    IF i > Len(voice_folders) THEN Loop(F, TRUE, n, NoMsg)
    ELSE LET rel_path == voice_folders[i]
             folder_path == source \o rel_path
             removed == remove_junction(F, folder_path, f, i)
         IN IF IsRemovable(F, folder_path)
            THEN IF ~removed.ok
                 THEN Loop(F, FALSE, n, Msg("DeleteFailed", 0, 0, PathStr(rel_path), ""))
                 ELSE DeleteJunctions(removed.fs, source, voice_folders, i + 1, n + 1, f)
            ELSE DeleteJunctions(F, source, voice_folders, i + 1, n, f)

\* delete_voice_files, the loop over toc_files from entry i on
RECURSIVE DeleteTocFiles(_, _, _, _, _, _)
DeleteTocFiles(F, source, toc_files, i, n, f) ==
    IF i > Len(toc_files) THEN Loop(F, TRUE, n, NoMsg)
    ELSE LET rel_path == toc_files[i]
             file_path == source \o rel_path
             removed == IF Hit(f, "rmfile", i) THEN Err(F) ELSE remove_file(F, file_path)
         IN IF exists(F, file_path)
            THEN IF ~removed.ok
                 THEN Loop(F, FALSE, n, Msg("DeleteFailed", 0, 0, PathStr(rel_path), ""))
                 ELSE DeleteTocFiles(removed.fs, source, toc_files, i + 1, n + 1, f)
            ELSE DeleteTocFiles(F, source, toc_files, i + 1, n, f)

DeleteVoiceRun(F, source, lang_code, f, rev) ==
    LET scan == find_voice_files(F, source, lang_code, rev)
        folders == DeleteJunctions(F, source, scan.folders, 1, 0, f)
        files == DeleteTocFiles(folders.fs, source, scan.toc_files, 1, 0, f)
    IN CASE source = <<>> ->
                Outcome(F, Msg("SelectFolderFirst", 0, 0, "", ""), TRUE, NoScan, FALSE)
         [] source # <<>> /\ ~exists(F, source) ->
                Outcome(F, Msg("FolderMissing", 0, 0, "", ""), TRUE, NoScan, FALSE)
         [] OTHER ->
            IF scan.folders = <<>> /\ scan.toc_files = <<>>
            THEN Outcome(F, Msg("NoVoiceFiles", 0, 0, lang_code, ""), TRUE, scan, FALSE)
            ELSE IF ~folders.ok
            THEN Outcome(folders.fs, folders.msg, TRUE, scan, FALSE)
            ELSE IF ~files.ok
            THEN Outcome(files.fs, files.msg, TRUE, scan, FALSE)
            ELSE Outcome(files.fs, Msg("Deleted", folders.n, files.n, lang_code, ""),
                         FALSE, scan, FALSE)

DeleteWholeStore(F, backups, idx, f) ==
    IF backups = <<>>
    THEN Outcome(F, Msg("NoBackupToDelete", 0, 0, "", ""), TRUE, NoScan, FALSE)
    ELSE Outcome(remove_dir_all(F, backup_dir).fs,
                 Msg("BackupDeleted", 0, 0, backups[idx + 1].lang_code, ""),
                 FALSE, NoScan, TRUE)

DeleteBackupRun(F, backups, idx, f) ==
    LET backup_info == backups[idx + 1]
        backup_path == Append(backup_dir, backup_info.lang_code)
        removed == IF Hit(f, "rmtree", 1) THEN Err(F) ELSE remove_dir_all(F, backup_path)
    IN IF backups = <<>>
       THEN Outcome(F, Msg("NoBackupToDelete", 0, 0, "", ""), TRUE, NoScan, FALSE)
       ELSE IF exists(F, backup_path) /\ ~removed.ok
       THEN Outcome(F, Msg("DeleteBackupFailed", 0, 0, "", ""), TRUE, NoScan, FALSE)
       ELSE Outcome(IF exists(F, backup_path) THEN removed.fs ELSE F,
                    Msg("BackupDeleted", 0, 0, backup_info.lang_code, ""),
                    FALSE, NoScan, TRUE)

(***************************************************************************)
(* Steam: the library-folders descriptor and the application manifest.     *)
(* Q is the double-quote character, an atom of its own in a line.          *)
(***************************************************************************)
BF6_APP_ID == "2807960"

Q == "\""

possible_paths ==
    << <<"C:\\Program Files (x86)\\Steam">>,
       <<"C:\\Program Files\\Steam">>,
       <<"D:\\Steam">>,
       <<"E:\\Steam">>,
       <<"D:\\Program Files (x86)\\Steam">>,
       <<"E:\\Program Files (x86)\\Steam">> >>

\* line.contains("\"key\"")
ContainsKey(line, key) ==
    \E i \in 1..Len(line) :
        i + 2 <= Len(line) /\ line[i] = Q /\ line[i + 1] = key /\ line[i + 2] = Q

\* line.split('"'): the segments between the quote characters
RECURSIVE SplitQuotes(_, _)
SplitQuotes(line, cur) ==
    IF line = <<>> THEN <<cur>>
    ELSE IF Head(line) = Q THEN <<cur>> \o SplitQuotes(Tail(line), "")
    ELSE SplitQuotes(Tail(line), cur \o Head(line))

extract_vdf_third(line) ==
    LET parts == SplitQuotes(line, "")
    IN IF Len(parts) >= 3 THEN <<parts[3]>> ELSE <<>>

\* extract_vdf_value: <<v>> for Some(v), <<>> for None
extract_vdf_value(line) ==
    LET parts == SplitQuotes(line, "")
    IN IF Len(parts) >= 4 THEN <<parts[4]>> ELSE <<>>

unwrap_or_default(opt) == IF opt = <<>> THEN "" ELSE opt[1]

\* path.replace("\\\\", "\\") on the library paths the model writes
Unescape(str) ==
    CASE str = "D:\\\\SteamLibrary" -> "D:\\SteamLibrary"
      [] OTHER -> str

\* parse_app_manifest, the loop over the lines: the last value of each key
RECURSIVE ManifestValues(_, _, _)
ManifestValues(text, install_dir, build_id) ==
    IF text = <<>> THEN <<install_dir, build_id>>
    ELSE LET line == Head(text)
         IN IF ContainsKey(line, "installdir")
            THEN ManifestValues(Tail(text), unwrap_or_default(extract_vdf_value(line)), build_id)
            ELSE IF ContainsKey(line, "buildid")
            THEN ManifestValues(Tail(text), install_dir, unwrap_or_default(extract_vdf_value(line)))
            ELSE ManifestValues(Tail(text), install_dir, build_id)

parse_app_manifest_any_dir(F, path) ==
    LET file == Stat(F, path)
        vals == ManifestValues(file.data, "", "")
    IN IF file.kind = "file" /\ vals[2] # "" THEN vals ELSE <<>>

\* parse_app_manifest: <<install_dir, build_id>>, or <<>> for None
parse_app_manifest(F, path) ==
    LET file == Stat(F, path)
        vals == ManifestValues(file.data, "", "")
    IN IF file.kind = "file" /\ vals[1] # "" /\ vals[2] # "" THEN vals ELSE <<>>

\* get_library_folders, the loop over the lines of libraryfolders.vdf
RECURSIVE LibraryLines(_, _, _)
LibraryLines(F, text, folders) ==
    IF text = <<>> THEN folders
    ELSE LET line == Head(text)
             val == extract_vdf_value(line)
             path == <<Unescape(unwrap_or_default(val))>>
         IN IF ContainsKey(line, "path") /\ val # <<>>
               /\ exists(F, path) /\ path \notin Range(folders)
            THEN LibraryLines(F, Tail(text), Append(folders, path))
            ELSE LibraryLines(F, Tail(text), folders)

get_library_folders(F, steam_path) ==
    LET vdf == Stat(F, steam_path \o <<"steamapps", "libraryfolders.vdf">>)
    IN IF vdf.kind = "file" THEN LibraryLines(F, vdf.data, <<steam_path>>)
       ELSE <<steam_path>>

ManifestName == "appmanifest_" \o BF6_APP_ID \o ".acf"

\* parse_steam_info, the loop over the library folders
RECURSIVE FindManifest(_, _)
FindManifest(F, library_folders) ==
    IF library_folders = <<>> THEN None
    ELSE LET lib_path == Head(library_folders)
             manifest_path == lib_path \o <<"steamapps", ManifestName>>
             found == parse_app_manifest(F, manifest_path)
         IN IF exists(F, manifest_path) /\ found # <<>>
            THEN Some(lib_path \o <<"steamapps", "common", found[1]>>, found[2])
            ELSE FindManifest(F, Tail(library_folders))

parse_steam_info(F, steam_path) == FindManifest(F, get_library_folders(F, steam_path))

\* detect_steam, the loop over possible_paths: the first root that resolves
RECURSIVE DetectRun(_, _)
DetectRun(F, paths) ==
    IF paths = <<>> THEN None
    ELSE LET steam_path == Head(paths)
             info == parse_steam_info(F, steam_path)
         IN IF exists(F, Append(steam_path, "steam.exe")) /\ info.some
            THEN info
            ELSE DetectRun(F, Tail(paths))

\* the source_path detect_steam sets
DetectedSource(info) == info.game_path \o <<"Data", "Win32">>

(***************************************************************************)
(* The state: the fields of BF6VoiceSwitcher, the file system, and a       *)
(* record of the last handler run (history, read by the properties only).  *)
(***************************************************************************)
VARIABLES fs, selected_lang_idx, source_path, available_backups,
          selected_backup_idx, status_message, is_error, steam_info, last, ops

vars == <<fs, selected_lang_idx, source_path, available_backups,
          selected_backup_idx, status_message, is_error, steam_info, last, ops>>

get_selected_lang_code == lang_codes[selected_lang_idx + 1]

\* the last handler run: its name, the language it worked on, the scan it
\* made, whether a snapshot of that language was on disk when it started,
\* whether the handler before it was a backup of the same language that
\* reported success, and whether it is a restore that follows a successful
\* restore of the same language with every folder of that one still a link
\* point under the source path
Last(op, lang_code, scan) ==
    [op |-> op, lang_code |-> lang_code, scan |-> scan,
     had |-> lang_code # "" /\ exists(fs, Append(backup_dir, lang_code)),
     fresh |-> /\ lang_code # ""
               /\ last.op = "backup_files"
               /\ last.lang_code = lang_code
               /\ status_message.kind = "BackupDone",
     again |-> /\ op = "restore_files"
               /\ last.op = "restore_files"
               /\ last.lang_code = lang_code
               /\ status_message.kind = "Restored"
               /\ \A rel \in Range(last.scan.folders) : is_junction(fs, source_path \o rel)]

FirstLast ==
    [op |-> "default", lang_code |-> "", scan |-> NoScan, had |-> FALSE,
     fresh |-> FALSE, again |-> FALSE]

(***************************************************************************)
(* The disks the program may be started on.                                *)
(***************************************************************************)
BuildIds == {"100", "200"}

SteamC == possible_paths[1]

GameRoot == SteamC \o <<"steamapps", "common", "Battlefield 6", "Data", "Win32">>

Ext == <<"ext">>

Text(atom) == << <<atom>> >>

VoiceDir(v) == Dir("s.bin" :> File(Text(v)))

AcfText(build_id) ==
    << <<Q, "AppState", Q>>,
       <<"{">>,
       <<"\t", Q, "appid", Q, "\t\t", Q, BF6_APP_ID, Q>>,
       <<"\t", Q, "installdir", Q, "\t\t", Q, "Battlefield 6", Q>>,
       <<"\t", Q, "buildid", Q, "\t\t", Q, build_id, Q>>,
       <<"}">> >>

ExtTree ==
    Dir(("x" :> VoiceDir("v2")) @@ ("en" :> VoiceDir("v2")) @@ ("en.toc" :> File(Text("t2"))))

SteamFiles(build_id) ==
    ("steam.exe" :> File(<<>>))
    @@ ("steamapps" :> Dir(ManifestName :> File(AcfText(build_id))))

\* a disk: Steam installed with the build id (or not, with ""), the game
\* folder and the backup directory
Disk(build_id, game, backups) ==
    LET games == Dir("common" :> Dir("Battlefield 6" :> Dir("Data" :> Dir("Win32" :> game))))
        steam == IF build_id = "" THEN Dir("steamapps" :> games)
                 ELSE Merge(Dir(SteamFiles(build_id)), Dir("steamapps" :> games))
    IN Dir((SteamC[1] :> steam) @@ (Ext[1] :> ExtTree)
           @@ (IF backups.kind = "dir" THEN backup_dir[1] :> backups ELSE NoEnts))

\* the game folders and backup directories by name
EmptyGame == Dir(NoEnts)

PlainGame == Dir(("en" :> VoiceDir("v1")) @@ ("en.toc" :> File(Text("t1"))))

TocOnlyGame == Dir("en.toc" :> File(Text("t1")))

LinkedGame == Dir(("en" :> Link(Ext \o <<"x">>)) @@ ("en.toc" :> File(Text("t1"))))

DeepGame ==
    Dir(("a" :> Dir(("voen" :> VoiceDir("v1")) @@ ("voen.toc" :> File(Text("t1")))))
        @@ ("en" :> VoiceDir("v1")))

OutsideGame ==
    Dir(("a" :> Link(Ext)) @@ ("ko" :> VoiceDir("v1")) @@ ("voko" :> Link(Ext \o <<"x">>)))

NestedGame ==
    Dir("en" :> Dir(("en" :> VoiceDir("v1")) @@ ("en.toc" :> File(Text("t1")))
                    @@ ("s.bin" :> File(Text("v1")))))

OldEnBackup ==
    Dir("en" :> Dir(("en" :> VoiceDir("v0")) @@ ("en.toc" :> File(Text("t0")))
                    @@ ("zz" :> File(Text("old")))
                    @@ (InfoName :> File(InfoContent("100", "en", <<<<"en">>>>, <<<<"en.toc">>>>)))))

UnknownKoBackup == Dir(("ko" :> Dir("ko" :> VoiceDir("v0"))) @@ ("x" :> Dir(NoEnts)))

TwoBackups ==
    Dir(("en" :> Dir(("a" :> Dir("voen" :> VoiceDir("v0")))
                     @@ (InfoName :> File(InfoContent("200", "en", <<<<"a", "voen">>>>, <<>>)))))
        @@ ("ko" :> Dir(("ko" :> VoiceDir("v0")) @@ ("ko.toc" :> File(Text("t0")))
                        @@ (InfoName :> File(InfoContent("100", "ko", <<<<"ko">>>>, <<<<"ko.toc">>>>))))))

\* a backup directory with a manifest naming another language and repeating
\* the build_id key, one without a build_id line, one whose build_id key
\* does not start the line, a directory in place of a manifest, a junction
\* and a file named as languages, and a directory that is no language
OddBackups ==
    Dir(("ja" :> Dir(InfoName :> File(<< <<"lang_code=", "en">>,
                                         <<"build_id=", "build_id=", "7">>,
                                         <<"build_id=", "8">> >>)))
        @@ ("fr" :> Dir(InfoName :> File(<< <<"lang_code=", "fr">> >>)))
        @@ ("cn" :> Dir(InfoName :> File(<< <<" ", "build_id=", "9">> >>)))
        @@ ("es" :> Dir(InfoName :> Dir(NoEnts)))
        @@ ("de" :> Link(Ext))
        @@ ("ru" :> File(Text("r")))
        @@ ("zz" :> Dir(InfoName :> File(InfoContent("100", "zz", <<>>, <<>>)))))

Disks ==
    { Disk("100", PlainGame, OldEnBackup),
      Disk("100", EmptyGame, OddBackups),
      Disk("200", EmptyGame, OldEnBackup),
      Disk("", EmptyGame, OldEnBackup),
      Disk("100", EmptyGame, TwoBackups),
      Disk("", LinkedGame, Absent),
      Disk("100", DeepGame, UnknownKoBackup),
      Disk("100", OutsideGame, Absent),
      Disk("100", TocOnlyGame, Absent),
      Disk("200", NestedGame, OldEnBackup) }

\* the languages the user clicks, as indexes into lang_codes
LangChoices == {0, 7}

\* the folders the user picks while none is set
SourceChoices == {GameRoot}

BackupFaults == {NoFault} \cup [kind : {"rmtree", "write"}, idx : {1}]
                \cup [kind : {"mkdir", "copydir", "copyfile"}, idx : 1..MaxFaultIdx]

RestoreFaults == {NoFault} \cup [kind : {"rmdir_spawn", "rmdir_exit", "mkdir", "mklink", "copyfile"},
                                 idx : 1..MaxFaultIdx]

DeleteVoiceFaults == {NoFault} \cup [kind : {"rmdir_spawn", "rmdir_exit", "rmfile"},
                                     idx : 1..MaxFaultIdx]

DeleteBackupFaults == {NoFault} \cup [kind : {"rmtree"}, idx : {1}]

RefreshFaults == {NoFault} \cup [kind : {"readinfo"}, idx : 1..MaxFaultIdx]

(***************************************************************************)
(* Init: the state Default::default() leaves, detect_steam and             *)
(* refresh_backups having run on the disk.                                 *)
(***************************************************************************)
Init ==
    \E disk \in Disks, rev \in BOOLEAN :
        LET info == DetectRun(disk, possible_paths)
        IN /\ fs = disk
           /\ selected_lang_idx = 0
           /\ steam_info = info
           /\ source_path = IF info.some THEN DetectedSource(info) ELSE <<>>
           /\ status_message = IF info.some THEN Msg("Detected", 0, 0, info.build_id, "")
                               ELSE NoMsg
           /\ is_error = FALSE
           /\ available_backups = refresh_backups(disk, NoFault, rev)
           /\ selected_backup_idx = 0
           /\ last = FirstLast
           /\ ops = 0

(***************************************************************************)
(* The handlers as actions.                                                *)
(***************************************************************************)
\* the button shown while no installation is known
detect_steam ==
    LET info == DetectRun(fs, possible_paths)
    IN /\ ~steam_info.some
       /\ IF info.some
          THEN /\ steam_info' = info
               /\ source_path' = DetectedSource(info)
               /\ status_message' = Msg("Detected", 0, 0, info.build_id, "")
               /\ is_error' = FALSE
          ELSE UNCHANGED <<steam_info, source_path, status_message, is_error>>
       /\ last' = Last("detect_steam", "", NoScan)
       /\ UNCHANGED <<fs, selected_lang_idx, available_backups, selected_backup_idx, ops>>

\* Steam installs the game while the program runs; followed only until an
\* installation is detected, no handler reading Steam's files after that
SteamInstalls ==
    \E b \in BuildIds :
        /\ ~steam_info.some
        /\ ~exists(fs, Append(SteamC, "steam.exe"))
        /\ fs' = Put(fs, SteamC, Merge(RawAt(fs, SteamC), Dir(SteamFiles(b))))
        /\ UNCHANGED <<selected_lang_idx, source_path, available_backups,
                       selected_backup_idx, status_message, is_error, steam_info, last, ops>>

Refresh ==
    \E f \in RefreshFaults, rev \in BOOLEAN :
        /\ ops < MaxOps
        /\ ops' = ops + 1
        /\ available_backups' = refresh_backups(fs, f, rev)
        /\ selected_backup_idx' = 0
        /\ last' = Last("refresh_backups", "", NoScan)
        /\ UNCHANGED <<fs, selected_lang_idx, source_path, status_message,
                       is_error, steam_info>>

\* update: a click on a language label
SelectLanguage ==
    \E idx \in LangChoices :
        LET code == lang_codes[idx + 1]
            hits == {i \in 1..Len(available_backups) : available_backups[i].lang_code = code}
        IN /\ ops < MaxOps
           /\ selected_lang_idx' = idx
           /\ selected_backup_idx' =
                 IF hits # {} THEN (CHOOSE i \in hits : \A j \in hits : i <= j) - 1
                 ELSE selected_backup_idx
           /\ UNCHANGED <<fs, source_path, available_backups, status_message,
                          is_error, steam_info, last, ops>>

\* update: a click on an entry of the backup list
SelectBackup ==
    \E idx \in 0..(Len(available_backups) - 1) :
        /\ ops < MaxOps
        /\ selected_backup_idx' = idx
        /\ UNCHANGED <<fs, selected_lang_idx, source_path, available_backups,
                       status_message, is_error, steam_info, last, ops>>

\* update: the path field edited, or a folder picked
SetSourcePath ==
    \E p \in SourceChoices :
        /\ ops < MaxOps
        /\ source_path = <<>>
        /\ source_path' = p
        /\ UNCHANGED <<fs, selected_lang_idx, available_backups, selected_backup_idx,
                       status_message, is_error, steam_info, last, ops>>

\* a refresh that keeps the selected backup index
ApplyKeepsIndex(op, lang_code, out, rev) ==
    /\ ops' = ops + 1
    /\ fs' = out.fs
    /\ status_message' = out.msg
    /\ is_error' = out.is_error
    /\ available_backups' = IF out.refresh THEN refresh_backups(out.fs, NoFault, rev)
                            ELSE available_backups
    /\ last' = Last(op, lang_code, out.scan)
    /\ UNCHANGED <<selected_lang_idx, selected_backup_idx, source_path, steam_info>>

\* what a handler leaves behind, refresh_backups included when it ran
Apply(op, lang_code, out, rev) ==
    /\ ops' = ops + 1
    /\ fs' = out.fs
    /\ status_message' = out.msg
    /\ is_error' = out.is_error
    /\ available_backups' = IF out.refresh THEN refresh_backups(out.fs, NoFault, rev)
                            ELSE available_backups
    /\ selected_backup_idx' = IF out.refresh THEN 0 ELSE selected_backup_idx
    /\ last' = Last(op, lang_code, out.scan)
    /\ UNCHANGED <<selected_lang_idx, source_path, steam_info>>

backup_files(f, rev) ==
    /\ ops < MaxOps
    /\ \E out \in {BackupRun(fs, source_path, get_selected_lang_code, steam_info, f, rev)} :
        Apply("backup_files", get_selected_lang_code, out, rev)

SelectedBackupCode ==
    IF available_backups = <<>> THEN ""
    ELSE available_backups[selected_backup_idx + 1].lang_code

restore_files(f, rev) ==
    /\ ops < MaxOps
    /\ \E out \in {RestoreRun(fs, source_path, available_backups, selected_backup_idx,
                           steam_info, f, rev)} :
        Apply("restore_files", SelectedBackupCode, out, rev)

delete_voice_files(f, rev) ==
    /\ ops < MaxOps
    /\ \E out \in {DeleteVoiceRun(fs, source_path, get_selected_lang_code, f, rev)} :
        Apply("delete_voice_files", get_selected_lang_code, out, rev)

delete_backup(f, rev) ==
    /\ ops < MaxOps
    /\ \E out \in {DeleteBackupRun(fs, available_backups, selected_backup_idx, f)} :
        Apply("delete_backup", SelectedBackupCode, out, rev)

Backup == \E f \in BackupFaults, rev \in BOOLEAN : backup_files(f, rev)

Restore == \E f \in RestoreFaults, rev \in BOOLEAN : restore_files(f, rev)

DeleteVoice == \E f \in DeleteVoiceFaults, rev \in BOOLEAN : delete_voice_files(f, rev)

DeleteBackup == \E f \in DeleteBackupFaults, rev \in BOOLEAN : delete_backup(f, rev)

Next ==
    \/ detect_steam
    \/ SteamInstalls
    \/ Refresh
    \/ SelectLanguage
    \/ SelectBackup
    \/ SetSourcePath
    \/ Backup
    \/ Restore
    \/ DeleteVoice
    \/ DeleteBackup

Spec == Init /\ [][Next]_vars

-----------------------------------------------------------------------------
\* What the properties below speak about.

\* the scan roots the handlers use, and the languages the user can pick here
ScanRoots == {GameRoot, Ext} \cup {Append(backup_dir, lang_codes[i + 1]) : i \in LangChoices}

ScanCodes == {lang_codes[i + 1] : i \in LangChoices}

\* every relative path of an entry below node n, links not followed
RECURSIVE Paths(_)
Paths(n) ==
    IF n.kind # "dir" THEN {}
    ELSE UNION {{<<k>>} \cup {<<k>> \o p : p \in Paths(n.ents[k])} : k \in DOMAIN n.ents}

\* the proper ancestors of the relative path p
Ancestors(p) == {SubSeq(p, 1, i) : i \in 1..(Len(p) - 1)}

\* p is reached from the root node through ordinary directories none of
\* which bears a matching folder name
ReachedPlainly(rootNode, p, lang_code) ==
    \A a \in Ancestors(p) :
        /\ RawAt(rootNode, a).kind = "dir"
        /\ a[Len(a)] \notin FolderNames(lang_code)

LocatedFolders(F, root, lang_code) ==
    LET rootNode == Stat(F, root)
    IN {p \in Paths(rootNode) :
           /\ p[Len(p)] \in FolderNames(lang_code)
           /\ RawAt(rootNode, p).kind \in {"dir", "link"}
           /\ ReachedPlainly(rootNode, p, lang_code)}

LocatedFiles(F, root, lang_code) ==
    LET rootNode == Stat(F, root)
    IN {p \in Paths(rootNode) :
           /\ p[Len(p)] \in TocNames(lang_code)
           /\ RawAt(rootNode, p).kind = "file"
           /\ ReachedPlainly(rootNode, p, lang_code)}

NoDuplicates(s) == Cardinality(Range(s)) = Len(s)

\* C5: the scan never descends through a link point: no path it reports,
\* folder or file, has a link point among its proper ancestors.
C5_NoDescentThroughLink ==
    \A root \in ScanRoots, lang_code \in ScanCodes, rev \in BOOLEAN :
        LET scan == find_voice_files(fs, root, lang_code, rev)
        IN \A p \in Range(scan.folders) \cup Range(scan.toc_files) :
               \A a \in Ancestors(p) : ~is_junction(fs, root \o a)

\* a handler scanned the game root for "en" while the root held a link point
\* "a" with a matching folder behind it, and did not report that folder
C5_Witness ==
    /\ last.op \in {"backup_files", "delete_voice_files"}
    /\ last.lang_code = "en"
    /\ source_path = GameRoot
    /\ is_junction(fs, GameRoot \o <<"a">>)
    /\ is_dir(fs, GameRoot \o <<"a", "en">>)
    /\ <<"a", "en">> \notin Range(last.scan.folders)

\* C9: the scan reports exactly the directory-like entries with a matching
\* folder name and the files named <code>.toc that are reached from the root
\* through ordinary directories without a matching name, each once, as a
\* non-empty path relative to the root that names an entry below it.
C9_LocateExact ==
    \A root \in ScanRoots, lang_code \in ScanCodes, rev \in BOOLEAN :
        LET scan == find_voice_files(fs, root, lang_code, rev)
        IN /\ Range(scan.folders) = LocatedFolders(fs, root, lang_code)
           /\ Range(scan.toc_files) = LocatedFiles(fs, root, lang_code)
           /\ NoDuplicates(scan.folders)
           /\ NoDuplicates(scan.toc_files)
           /\ \A p \in Range(scan.folders) \cup Range(scan.toc_files) :
                  p # <<>> /\ LStat(fs, root \o p).kind # "none"

\* a backup scanned a game root in which the matching folder "en" holds
\* another folder named "en", and reported the outer one alone
C9_Witness ==
    /\ last.op = "backup_files"
    /\ last.lang_code = "en"
    /\ source_path = GameRoot
    /\ LStat(fs, GameRoot \o <<"en", "en">>).kind = "dir"
    /\ last.scan.folders = << <<"en">> >>

\* a step of one handler: every handler run counts as one operation
Step(op) == ops' = ops + 1 /\ last'.op = op

SnapshotPath(lang_code) == Append(backup_dir, lang_code)

\* the state is the one a successful backup left (selections may have been
\* made since), and the step is a restore of the language it captured
CaptureThenActivate ==
    /\ last.op = "backup_files"
    /\ status_message.kind = "BackupDone"
    /\ Step("restore_files")
    /\ last'.lang_code = last.lang_code
    /\ steam_info' = steam_info

\* in file system F every folder and file of the scan is in place under the
\* game root: the folder as a junction to its copy in the snapshot, the
\* file with the content of its copy in the snapshot
Activated(F, root, lang_code, scan) ==
    /\ \A rel \in Range(scan.folders) :
           LStat(F, root \o rel) = Link(SnapshotPath(lang_code) \o rel)
    /\ \A rel \in Range(scan.toc_files) :
           /\ Stat(F, root \o rel).kind = "file"
           /\ Stat(F, root \o rel) = Stat(F, SnapshotPath(lang_code) \o rel)

\* the folders of the scan that are ordinary directories under the root
OrdinaryFolders(F, root, scan) ==
    {rel \in Range(scan.folders) : LStat(F, root \o rel).kind = "dir"}

\* C1, as the specification states it: a backup immediately followed by a
\* restore of the same language leaves every captured folder as a junction
\* to its snapshot copy and every captured .toc file equal to its copy.
C1_RoundTripAlways ==
    [][CaptureThenActivate
          => Activated(fs', source_path, last.lang_code, last.scan)]_vars

\* C1, as the code has it: after a successful backup, a restore of the same
\* language that reports success leaves every captured folder as a junction
\* to its snapshot copy and every captured .toc file equal to its copy; and
\* when a captured folder is still an ordinary directory under the game
\* root the restore reports an error and leaves that directory as it was.
C1_RoundTripWhenRestored ==
    [][CaptureThenActivate
          => /\ status_message'.kind = "Restored"
                    => Activated(fs', source_path, last.lang_code, last.scan)
             /\ OrdinaryFolders(fs, source_path, last.scan) # {}
                    => /\ is_error'
                       /\ status_message'.kind # "Restored"
                       /\ \A rel \in OrdinaryFolders(fs, source_path, last.scan) :
                              LStat(fs', source_path \o rel) = LStat(fs, source_path \o rel)]_vars

\* a restore that followed a successful backup of the same language reported
\* success, with a folder linked and a .toc file copied
C1_Witness ==
    /\ last.op = "restore_files"
    /\ last.fresh
    /\ status_message.kind = "Restored"
    /\ status_message.n1 > 0
    /\ status_message.n2 > 0
    /\ Activated(fs, source_path, last.lang_code, last.scan)

\* the backup record the restore and delete-backup buttons work on
SelectedBackup == available_backups[selected_backup_idx + 1]

\* restore_files gets as far as its version check
ReachesVersionCheck ==
    /\ source_path # <<>>
    /\ available_backups # <<>>
    /\ exists(fs, SnapshotPath(SelectedBackup.lang_code))

\* C2: when an installation is detected and the selected backup record has
\* a non-empty build id different from the installation's, restore_files
\* reports the version mismatch with both ids and leaves the whole file
\* system, game root and backup store, exactly as it was.
C2_MismatchChangesNothing ==
    [][(/\ Step("restore_files")
        /\ ReachesVersionCheck
        /\ steam_info.some
        /\ SelectedBackup.build_id # ""
        /\ SelectedBackup.build_id # steam_info.build_id)
          => /\ status_message'.kind = "VersionMismatch"
             /\ status_message'.s1 = SelectedBackup.build_id
             /\ status_message'.s2 = steam_info.build_id
             /\ is_error'
             /\ fs' = fs]_vars

\* a restore of the backup made at build 100 was refused at build 200
C2_Witness ==
    /\ last.op = "restore_files"
    /\ status_message = Msg("VersionMismatch", 0, 0, "100", "200")
    /\ is_error
    /\ steam_info.some
    /\ steam_info.build_id = "200"
    /\ available_backups # <<>>
    /\ SelectedBackup.build_id = "100"

C4_NoFolderNoSnapshot ==
    [][(/\ Step("backup_files")
        /\ source_path # <<>>
        /\ exists(fs, source_path)
        /\ last'.scan.folders = <<>>)
          => /\ status_message'.kind =
                    (IF last'.scan.toc_files = <<>> THEN "NoVoiceFiles" ELSE "Incomplete")
             /\ is_error'
             /\ fs' = fs
             /\ available_backups' = available_backups]_vars

\* a backup of a game root holding en.toc and no en folder was refused as
\* incomplete, and there is no snapshot of en
C4_Witness ==
    /\ last.op = "backup_files"
    /\ last.lang_code = "en"
    /\ status_message.kind = "Incomplete"
    /\ last.scan.folders = <<>>
    /\ last.scan.toc_files # <<>>
    /\ ~exists(fs, SnapshotPath("en"))

\* restore_files went past its version check: it reports how the linking
\* and copying went
PastVersionCheck(kind) ==
    kind \in {"Restored", "NothingInBackup", "CreateDirFailed", "LinkFailed", "RestoreFailed"}

\* C6, as the specification states it: restore_files gets past the version
\* check, or changes anything, only for a backup record whose build id is
\* empty or equals the build id of the detected installation.
C6_GateOnlyEmptyOrEqual ==
    [][(/\ Step("restore_files")
        /\ (PastVersionCheck(status_message'.kind) \/ fs' # fs))
          => \/ SelectedBackup.build_id = ""
             \/ (steam_info.some /\ SelectedBackup.build_id = steam_info.build_id)]_vars

\* C6, as the code has it: restore_files gets past the version check, or
\* changes anything, only for a backup record whose build id is empty or
\* equals the build id of the detected installation, or when no
\* installation is detected.
C6_GateEmptyEqualOrUndetected ==
    [][(/\ Step("restore_files")
        /\ (PastVersionCheck(status_message'.kind) \/ fs' # fs))
          => \/ SelectedBackup.build_id = ""
             \/ ~steam_info.some
             \/ SelectedBackup.build_id = steam_info.build_id]_vars

\* a restore of a backup with a build id went through at an installation
\* of the same build id
C6_Witness ==
    /\ last.op = "restore_files"
    /\ status_message.kind = "Restored"
    /\ \E rel \in Range(last.scan.folders) : is_junction(fs, source_path \o rel)
    /\ steam_info.some
    /\ SelectedBackup.build_id # ""
    /\ SelectedBackup.build_id = steam_info.build_id

\* the verdict the specification gives for a backup build id and an
\* optional installation
GateVerdict(build_id, info) ==
    IF build_id = "" THEN NoMismatch
    ELSE IF ~info.some THEN NoMismatch
    ELSE IF build_id = info.build_id THEN NoMismatch
    ELSE <<build_id, info.build_id>>

\* C7: the version check depends on the backup's build id and the optional
\* installation alone: no mismatch when the build id is empty, none when no
\* installation is detected, otherwise none exactly when the two ids are
\* equal, and a mismatch carries both ids; the check inside restore_files
\* and check_version_match give the same verdict.
C7_GateFunction ==
    /\ [](available_backups # <<>>
            => /\ check_version_match(available_backups, selected_backup_idx, steam_info)
                    = GateVerdict(SelectedBackup.build_id, steam_info)
               /\ VersionBlocked(SelectedBackup, steam_info)
                    <=> GateVerdict(SelectedBackup.build_id, steam_info) # NoMismatch)
    /\ [][(Step("restore_files") /\ ReachesVersionCheck)
             => IF check_version_match(available_backups, selected_backup_idx, steam_info)
                      = NoMismatch
                THEN PastVersionCheck(status_message'.kind)
                ELSE /\ status_message'.kind = "VersionMismatch"
                     /\ <<status_message'.s1, status_message'.s2>>
                            = check_version_match(available_backups, selected_backup_idx,
                                                  steam_info)]_vars

\* a restore of a backup with a build id went through while no installation
\* was detected
C7_Witness ==
    /\ last.op = "restore_files"
    /\ PastVersionCheck(status_message.kind)
    /\ ~steam_info.some
    /\ SelectedBackup.build_id = "100"
    /\ check_version_match(available_backups, selected_backup_idx, steam_info) = NoMismatch

\* one path is the other or lies below it
Along(p, q) == IsPrefix(p, q) \/ IsPrefix(q, p)

\* the snapshot node snap holds the folders and files of the scan as they
\* were under root in file system F, at most a manifest with the given
\* content besides, and nothing else
ExactSnapshot(snap, F, root, scan, manifest) ==
    /\ snap.kind = "dir"
    /\ \A p \in Paths(snap) :
           \/ p = <<InfoName>>
           \/ \E rel \in Range(scan.folders) \cup Range(scan.toc_files) : Along(p, rel)
    /\ \A rel \in Range(scan.folders) :
           RawAt(snap, rel) = Resolved(F, Stat(F, root \o rel), MaxLinkHops)
    /\ \A rel \in Range(scan.toc_files) :
           RawAt(snap, rel) = Stat(F, root \o rel)
    /\ RawAt(snap, <<InfoName>>) \in {Absent, File(manifest)}

\* C8: the backup list never holds two records of one language code, and a
\* backup that reports success replaces the old snapshot as a whole: the
\* snapshot directory then holds the folders and files this backup matched,
\* as they were in the game folder, and the new manifest, and nothing that
\* was in the old snapshot only.
C8_OneSnapshotReplaced ==
    /\ [](\A i, j \in 1..Len(available_backups) :
              available_backups[i].lang_code = available_backups[j].lang_code => i = j)
    /\ [][(Step("backup_files") /\ status_message'.kind = "BackupDone")
             => ExactSnapshot(LStat(fs', SnapshotPath(last'.lang_code)), fs, source_path,
                              last'.scan,
                              InfoContent(status_message'.s2, last'.lang_code,
                                          last'.scan.folders, last'.scan.toc_files))]_vars

\* a backup of en succeeded where a snapshot of en with a file zz of its own
\* was on disk before: zz is gone and the manifest is the new one
C8_Witness ==
    /\ last.op = "backup_files"
    /\ last.lang_code = "en"
    /\ last.had
    /\ status_message.kind = "BackupDone"
    /\ ~exists(fs, SnapshotPath("en") \o <<"zz">>)
    /\ ReadBuildId(Stat(fs, SnapshotPath("en") \o <<InfoName>>).data) = "200"

\* the build id of the detected installation, empty when there is none
KnownBuildId == IF steam_info.some THEN steam_info.build_id ELSE ""

\* C10: whenever backup_files reports success the manifest is on disk, the
\* refreshed backup list holds a record of the language with the build id
\* of the installation known at that time (empty when none is detected),
\* and the counts in the message are the sizes of the scanned folder set
\* and file set.
C10_SuccessMeansManifest ==
    [][(Step("backup_files") /\ status_message'.kind = "BackupDone")
          => /\ Stat(fs', SnapshotPath(last'.lang_code) \o <<InfoName>>).kind = "file"
             /\ \E i \in 1..Len(available_backups') :
                    available_backups'[i] = BackupInfo(last'.lang_code, KnownBuildId)
             /\ status_message'.n1 = Len(last'.scan.folders)
             /\ status_message'.n2 = Len(last'.scan.toc_files)]_vars

\* a backup made at build 100 reported success, yet no manifest is on disk
\* and the record in the backup list has no build id
C10_Witness ==
    /\ last.op = "backup_files"
    /\ status_message.kind = "BackupDone"
    /\ status_message.s2 = "100"
    /\ ~exists(fs, SnapshotPath(last.lang_code) \o <<InfoName>>)
    /\ \E i \in 1..Len(available_backups) :
           available_backups[i] = BackupInfo(last.lang_code, "")

\* the snapshot directories of the languages other than lang_code are the
\* same in file systems F and G
OtherSnapshotsSame(F, G, lang_code) ==
    \A c \in Range(lang_codes) \ {lang_code} :
        LStat(G, SnapshotPath(c)) = LStat(F, SnapshotPath(c))

\* no snapshot is there for delete_backup to remove: the backup list is
\* empty, or the directory of the selected record is gone
NothingToRemove ==
    \/ available_backups = <<>>
    \/ ~exists(fs, SnapshotPath(SelectedBackup.lang_code))

\* C11, as the specification states it: delete_backup removes the snapshot
\* directory when it is there, succeeds and changes nothing when there is
\* none, reports the failure and keeps the backup list when the removal
\* fails, and never touches the snapshot of another language.
C11_RemoveOrSucceed ==
    [][Step("delete_backup")
          => /\ NothingToRemove => (~is_error' /\ fs' = fs)
             /\ ~NothingToRemove
                    => /\ OtherSnapshotsSame(fs, fs', SelectedBackup.lang_code)
                       /\ IF is_error'
                          THEN available_backups' = available_backups
                          ELSE ~exists(fs', SnapshotPath(SelectedBackup.lang_code))]_vars

\* C11, as the code has it: with an empty backup list delete_backup reports
\* an error and changes nothing; otherwise it works on the selected record:
\* when that record's directory is gone it reports success and leaves the
\* disk as it was, when the directory is there it removes it and the record
\* leaves the list, or, the removal failing, reports the failure and keeps
\* disk and list; the snapshots of other languages are never touched.
C11_RemoveSelected ==
    [][Step("delete_backup")
          => IF available_backups = <<>>
             THEN /\ status_message'.kind = "NoBackupToDelete"
                  /\ is_error'
                  /\ fs' = fs
                  /\ available_backups' = available_backups
             ELSE /\ OtherSnapshotsSame(fs, fs', SelectedBackup.lang_code)
                  /\ source_path # <<>>
                         => LStat(fs', source_path) = LStat(fs, source_path)
                  /\ IF ~exists(fs, SnapshotPath(SelectedBackup.lang_code))
                     THEN /\ status_message'.kind = "BackupDeleted"
                          /\ ~is_error'
                          /\ fs' = fs
                     ELSE IF is_error'
                     THEN /\ status_message'.kind = "DeleteBackupFailed"
                          /\ fs' = fs
                          /\ available_backups' = available_backups
                     ELSE /\ status_message'.kind = "BackupDeleted"
                          /\ ~exists(fs', SnapshotPath(SelectedBackup.lang_code))
                          /\ \A i \in 1..Len(available_backups') :
                                 available_backups'[i].lang_code
                                     # SelectedBackup.lang_code]_vars

\* delete_backup removed a snapshot that was on disk, and the snapshot of
\* another language is still there
C11_Witness ==
    /\ last.op = "delete_backup"
    /\ last.had
    /\ status_message.kind = "BackupDeleted"
    /\ ~exists(fs, SnapshotPath(last.lang_code))
    /\ \E c \in Range(lang_codes) \ {last.lang_code} : exists(fs, SnapshotPath(c))

\* the language codes that name a subdirectory of the backup directory
ListedCodes(F) ==
    LET d == Stat(F, backup_dir)
    IN IF d.kind # "dir" THEN {}
       ELSE {c \in languages : c \in DOMAIN d.ents /\ is_dir(F, SnapshotPath(c))}

\* the build id a snapshot's manifest gives: the rest of its first line
\* that starts with build_id=, empty when the manifest is no file or has no
\* such line
ManifestBuildId(F, lang_code) ==
    LET info == Stat(F, Append(SnapshotPath(lang_code), InfoName))
        hits == IF info.kind # "file" THEN {}
                ELSE {i \in 1..Len(info.data) :
                          info.data[i] # <<>> /\ info.data[i][1] = "build_id="}
    IN IF hits = {} THEN ""
       ELSE TrimBuildId(info.data[CHOOSE i \in hits : \A j \in hits : i <= j])

\* C12: refresh_backups never fails: it lists one record for each
\* subdirectory of the backup directory named as one of the 8 languages and
\* for nothing else, the record's code being the directory name whatever
\* the manifest says, the build id empty when the manifest is missing,
\* cannot be read or has no build_id line, and the list empty when the
\* backup directory does not exist; a refresh raises no error.
C12_ListBackups ==
    /\ [](\A rev \in BOOLEAN, f \in RefreshFaults :
              LET list == refresh_backups(fs, f, rev)
              IN /\ {list[i].lang_code : i \in 1..Len(list)} = ListedCodes(fs)
                 /\ Len(list) = Cardinality(ListedCodes(fs))
                 /\ \A i \in 1..Len(list) :
                        \/ list[i].build_id = ManifestBuildId(fs, list[i].lang_code)
                        \/ f # NoFault /\ list[i].build_id = ""
                 /\ ~exists(fs, backup_dir) => list = <<>>)
    /\ [][Step("refresh_backups")
             => /\ {available_backups'[i].lang_code : i \in 1..Len(available_backups')}
                       = ListedCodes(fs)
                /\ is_error' = is_error
                /\ status_message' = status_message
                /\ fs' = fs]_vars

\* the refreshed list of a backup directory that holds a manifest naming
\* another language, manifests without a usable build_id line, a directory
\* in place of a manifest, and a file and a directory that are no snapshots
C12_Witness ==
    /\ last.op = "refresh_backups"
    /\ Stat(fs, SnapshotPath("ja") \o <<InfoName>>).kind = "file"
    /\ Stat(fs, SnapshotPath("ja") \o <<InfoName>>).data[1] = <<"lang_code=", "en">>
    /\ LStat(fs, SnapshotPath("ru")).kind = "file"
    /\ LStat(fs, SnapshotPath("zz")).kind = "dir"
    /\ {available_backups[i] : i \in 1..Len(available_backups)}
           = {BackupInfo("ja", "7"), BackupInfo("fr", ""), BackupInfo("cn", ""),
              BackupInfo("es", ""), BackupInfo("de", "")}

\* the entries of paths that are under root in file system F and no
\* longer in file system G
Gone(F, G, root, paths) ==
    {rel \in Range(paths) :
         LStat(F, root \o rel).kind # "none" /\ LStat(G, root \o rel).kind = "none"}

\* C13: after delete_voice_files reports success every .toc file of its
\* scan is deleted, every scanned folder that was a junction is removed,
\* and the two counts in the message are the numbers of junctions and of
\* files that were removed.
C13_DeleteRemovesAndCounts ==
    [][(Step("delete_voice_files") /\ status_message'.kind = "Deleted")
          => /\ \A rel \in Range(last'.scan.toc_files) :
                    LStat(fs', source_path \o rel).kind = "none"
             /\ \A rel \in Range(last'.scan.folders) :
                    is_junction(fs, source_path \o rel)
                        => LStat(fs', source_path \o rel).kind = "none"
             /\ status_message'.n1
                    = Cardinality(Gone(fs, fs', source_path, last'.scan.folders))
             /\ status_message'.n2
                    = Cardinality(Gone(fs, fs', source_path, last'.scan.toc_files))]_vars

\* delete_voice_files reported success with one folder removed while the
\* only junction of its scan is still in the game folder
C13_Witness ==
    /\ last.op = "delete_voice_files"
    /\ status_message.kind = "Deleted"
    /\ status_message.n1 = 1
    /\ Cardinality({rel \in Range(last.scan.folders) :
                        is_junction(fs, source_path \o rel)}) = 1
    /\ \A rel \in Range(last.scan.folders) : LStat(fs, source_path \o rel).kind # "none"

-----------------------------------------------------------------------------
(***************************************************************************)
(* Steam on disk: the texts detect_steam reads.  SteamSpec starts the      *)
(* program on disks that differ in the installation roots, the library     *)
(* descriptor and the application manifests, lets Steam rewrite its files  *)
(* while no installation is detected, and lets the user press the detect   *)
(* button.                                                                 *)
(***************************************************************************)
KeyValue(key, val) == <<"\t", Q, key, Q, "\t\t", Q, val, Q>>

\* a key with nothing after it, and a key whose value is not quoted
KeyOnly(key) == <<"\t", Q, key, Q>>

KeyBare(key, val) == <<"\t", Q, key, Q, "\t\t", val>>

LibraryL == <<"D:\\SteamLibrary">>

SteamD == possible_paths[3]

VdfLines ==
    { KeyValue("path", "D:\\\\SteamLibrary"),
      KeyValue("path", "E:\\\\Gone"),
      KeyValue("path", SteamC[1]),
      KeyOnly("path"),
      KeyBare("path", "D:\\\\SteamLibrary"),
      KeyValue("label", "path"),
      <<"\t", Q, "path", Q, "\t\t", Q, "D:\\\\SteamLibrary">> }

AcfLines ==
    { KeyValue("installdir", "Battlefield 6"),
      KeyValue("installdir", ""),
      KeyOnly("installdir"),
      KeyValue("buildid", "100"),
      KeyBare("buildid", "100"),
      KeyOnly("buildid"),
      KeyValue("appid", BF6_APP_ID) }

MaxVdfLines == 2

MaxAcfLines == 2

Texts(lines, n) == UNION {[1..k -> lines] : k \in 0..n}

VdfTexts == Texts(VdfLines, MaxVdfLines)

AcfTexts ==
    Texts(AcfLines, MaxAcfLines)
    \cup {<<KeyValue("installdir", "Battlefield 6"), KeyValue("buildid", "100"), l>> :
              l \in AcfLines}

\* a library or installation root holding the manifest node acf
SteamApps(acf, vdf) ==
    Dir((IF acf.kind = "none" THEN NoEnts ELSE ManifestName :> acf)
        @@ (IF vdf.kind = "none" THEN NoEnts ELSE "libraryfolders.vdf" :> vdf))

\* what is or is not at a second place Steam can be in: nothing, a good
\* manifest, or a directory where the manifest should be
PlaceChoices == {Absent, File(AcfText("200")), Dir(NoEnts)}

\* the disk: root C with marker, descriptor and manifest; library L with
\* its manifest; root D with its manifest, with or without the marker
SteamDisk(acfC, vdf, acfL, acfD, markerD) ==
    Dir((SteamC[1] :> Dir(("steam.exe" :> File(<<>>))
                          @@ ("steamapps" :> SteamApps(acfC, File(vdf)))))
        @@ (IF acfL.kind = "none" THEN NoEnts
            ELSE LibraryL[1] :> Dir("steamapps" :> SteamApps(acfL, Absent)))
        @@ (IF acfD.kind = "none" THEN NoEnts
            ELSE SteamD[1] :> Dir((IF markerD THEN "steam.exe" :> File(<<>>) ELSE NoEnts)
                                  @@ ("steamapps" :> SteamApps(acfD, Absent)))))

\* the descriptor Steam writes when it knows library L
GoodVdf == <<KeyValue("path", SteamC[1]), KeyValue("path", "D:\\SteamLibrary")>>

\* every manifest text with an empty or a good descriptor, and every
\* descriptor text with no, a good or an incomplete manifest
SteamDisks ==
    {SteamDisk(acfC, vdf, acfL, acfD, markerD) :
         acfC \in {Absent} \cup {File(t) : t \in AcfTexts},
         vdf \in {<<>>, GoodVdf},
         acfL \in PlaceChoices,
         acfD \in {Absent, File(AcfText("200"))},
         markerD \in BOOLEAN}
    \cup
    {SteamDisk(acfC, vdf, acfL, acfD, markerD) :
         acfC \in {Absent, File(AcfText("100")), File(<<KeyValue("buildid", "100")>>)},
         vdf \in VdfTexts,
         acfL \in PlaceChoices,
         acfD \in {Absent, File(AcfText("200"))},
         markerD \in BOOLEAN}

\* the state Default::default() leaves on the disk
Started(disk, rev) ==
    LET info == DetectRun(disk, possible_paths)
    IN /\ fs = disk
       /\ selected_lang_idx = 0
       /\ steam_info = info
       /\ source_path = IF info.some THEN DetectedSource(info) ELSE <<>>
       /\ status_message = IF info.some THEN Msg("Detected", 0, 0, info.build_id, "")
                           ELSE NoMsg
       /\ is_error = FALSE
       /\ available_backups = refresh_backups(disk, NoFault, rev)
       /\ selected_backup_idx = 0
       /\ last = FirstLast
       /\ ops = 0

InitSteam == \E disk \in SteamDisks : Started(disk, FALSE)

\* Steam writes the manifest of root C anew
SteamWritesManifest ==
    \E b \in BuildIds :
        /\ ~steam_info.some
        /\ fs' = Put(fs, SteamC \o <<"steamapps", ManifestName>>, File(AcfText(b)))
        /\ UNCHANGED <<selected_lang_idx, source_path, available_backups,
                       selected_backup_idx, status_message, is_error, steam_info, last, ops>>

\* Steam writes the library descriptor of root C anew
SteamWritesDescriptor ==
    /\ ~steam_info.some
    /\ \E text \in {GoodVdf} :
        /\ fs' = Put(fs, SteamC \o <<"steamapps", "libraryfolders.vdf">>, File(text))
        /\ UNCHANGED <<selected_lang_idx, source_path, available_backups,
                       selected_backup_idx, status_message, is_error, steam_info, last, ops>>

\* the user types a folder while none is set
TypesSourcePath ==
    /\ source_path = <<>>
    /\ source_path' = <<"typed">>
    /\ UNCHANGED <<fs, selected_lang_idx, available_backups, selected_backup_idx,
                   status_message, is_error, steam_info, last, ops>>

NextSteam ==
    \/ detect_steam
    \/ SteamWritesManifest
    \/ SteamWritesDescriptor
    \/ TypesSourcePath

SteamSpec == InitSteam /\ [][NextSteam]_vars

-----------------------------------------------------------------------------
\* What the properties say about the texts, told from the positions of the
\* quote characters in a line.
QuotePositions(line) == {i \in 1..Len(line) : line[i] = Q}

\* the position of the n-th quote character of the line
NthQuote(line, n) ==
    CHOOSE i \in QuotePositions(line) :
        Cardinality({j \in QuotePositions(line) : j <= i}) = n

\* the text after the third quote character, up to the fourth if there is one
ThirdQuoted(line) ==
    LET from == NthQuote(line, 3) + 1
        to == IF Cardinality(QuotePositions(line)) >= 4
              THEN NthQuote(line, 4) - 1
              ELSE Len(line)
    IN Concat(SubSeq(line, from, to))

HasKey(line, key) ==
    \E i \in QuotePositions(line) :
        i + 2 \in QuotePositions(line) /\ line[i + 1] = key

\* the line has one of the keys and no quoted value after it
Malformed(line) ==
    /\ \E key \in {"path", "installdir", "buildid"} : HasKey(line, key)
    /\ Cardinality(QuotePositions(line)) < 3

\* the value the line gives a key: empty when nothing quoted follows
LineValue(line) ==
    IF Cardinality(QuotePositions(line)) >= 3 THEN ThirdQuoted(line) ELSE ""

\* the value of the last line of the text that is read for the key; a line
\* with the installdir key is never read for buildid
LastValue(text, key) ==
    LET reads == {i \in 1..Len(text) :
                      /\ HasKey(text[i], key)
                      /\ key = "buildid" => ~HasKey(text[i], "installdir")}
    IN IF reads = {} THEN ""
       ELSE LineValue(text[CHOOSE i \in reads : \A j \in reads : j <= i])

ManifestOf(F, lib) == Stat(F, lib \o <<"steamapps", ManifestName>>)

\* the library holds a manifest with an install directory and a build id
Qualifies(F, lib) ==
    /\ ManifestOf(F, lib).kind = "file"
    /\ LastValue(ManifestOf(F, lib).data, "installdir") # ""
    /\ LastValue(ManifestOf(F, lib).data, "buildid") # ""

DescriptorOf(F, root) ==
    LET vdf == Stat(F, root \o <<"steamapps", "libraryfolders.vdf">>)
    IN IF vdf.kind = "file" THEN vdf.data ELSE <<>>

\* the lines of the root's descriptor that list the library
ListedAt(F, root, lib) ==
    {i \in 1..Len(DescriptorOf(F, root)) :
         LET line == DescriptorOf(F, root)[i]
         IN /\ HasKey(line, "path")
            /\ Cardinality(QuotePositions(line)) >= 3
            /\ <<Unescape(ThirdQuoted(line))>> = lib}

Places == Range(possible_paths) \cup {LibraryL}

\* the libraries of a root: the root itself and the existing ones listed
LibrariesOf(F, root) ==
    {root} \cup {lib \in Places : ListedAt(F, root, lib) # {} /\ exists(F, lib)}

\* the place of a library among those of the root: the root first, the
\* others by the first line that lists them
RankOf(F, root, lib) ==
    IF lib = root THEN 0
    ELSE CHOOSE i \in ListedAt(F, root, lib) : \A j \in ListedAt(F, root, lib) : i <= j

\* the libraries of the root that qualify
GoodLibraries(F, root) == {lib \in LibrariesOf(F, root) : Qualifies(F, lib)}

\* the roots, by their place in possible_paths, that have the marker and a
\* library that qualifies
GoodRoots(F) ==
    {r \in 1..Len(possible_paths) :
         /\ exists(F, Append(possible_paths[r], "steam.exe"))
         /\ GoodLibraries(F, possible_paths[r]) # {}}

\* the installation the first qualifying candidate gives
ExpectedInstallation(F) ==
    LET roots == GoodRoots(F)
    IN IF roots = {} THEN None
       ELSE LET root == possible_paths[CHOOSE r \in roots : \A q \in roots : r <= q]
                good == GoodLibraries(F, root)
                rank == [l \in good |-> RankOf(F, root, l)]
                lib == CHOOSE l \in good : \A m \in good : rank[l] <= rank[m]
                text == ManifestOf(F, lib).data
            IN Some(lib \o <<"steamapps", "common", LastValue(text, "installdir")>>,
                    LastValue(text, "buildid"))

\* C14: detect_steam finds an installation only in a manifest that gives
\* both an install directory and a build id; the roots are tried in the
\* order of the list and, within a root, the root itself before the
\* libraries its descriptor lists; a root without marker and a library with
\* a missing, unreadable or incomplete manifest are passed over; when
\* nothing qualifies, no error is raised and the installation, the source
\* path and the message stay as they were.
C14_DetectFirstQualifying ==
    /\ [](DetectRun(fs, possible_paths) = ExpectedInstallation(fs))
    /\ [][detect_steam
             => LET found == ExpectedInstallation(fs)
                IN IF found.some
                   THEN /\ steam_info' = found
                        /\ source_path' = found.game_path \o <<"Data", "Win32">>
                        /\ ~is_error'
                   ELSE UNCHANGED <<steam_info, source_path, status_message, is_error, fs>>]_vars

\* the detect button found the game in library L, listed in the descriptor
\* of root C, after passing over root C itself whose manifest is missing
\* or incomplete
C14_Witness ==
    /\ last.op = "detect_steam"
    /\ exists(fs, Append(SteamC, "steam.exe"))
    /\ ~Qualifies(fs, SteamC)
    /\ steam_info = Some(LibraryL \o <<"steamapps", "common", "Battlefield 6">>, "200")
    /\ source_path = LibraryL \o <<"steamapps", "common", "Battlefield 6", "Data", "Win32">>

\* the lines of the descriptors and manifests on disk
LinesOnDisk(F) ==
    UNION {Range(DescriptorOf(F, p)) : p \in Places}
    \cup UNION {Range(ManifestOf(F, p).data) : p \in {q \in Places : ManifestOf(F, q).kind = "file"}}

\* C15: for a line with a quoted key followed by a quoted value,
\* extract_vdf_value gives the value, the segment at index 3 of the split on
\* the quote character: the text after the third quote character up to the
\* fourth (or to the end of a line that has only three); for a line that
\* splits into fewer than four segments, fewer than three quote characters,
\* it gives nothing.
C15_ExtractValue ==
    \A line \in LinesOnDisk(fs) :
        /\ Cardinality(QuotePositions(line)) >= 3
               => extract_vdf_value(line) = <<ThirdQuoted(line)>>
        /\ Cardinality(QuotePositions(line)) < 3
               => extract_vdf_value(line) = <<>>

\* the program has read a disk with a key-and-value line, a line with a key
\* alone and a line with an empty quoted value
C15_Witness ==
    /\ last.op = "detect_steam"
    /\ KeyValue("installdir", "Battlefield 6") \in LinesOnDisk(fs)
    /\ KeyOnly("installdir") \in LinesOnDisk(fs)
    /\ extract_vdf_value(KeyValue("installdir", "Battlefield 6")) = <<"Battlefield 6">>
    /\ extract_vdf_value(KeyOnly("installdir")) = <<>>

\* the text without its malformed lines
WellFormedLines(text) == SelectSeq(text, LAMBDA line : ~Malformed(line))

\* the disk with the malformed lines taken out of the descriptor and the
\* manifest of the place
WithoutMalformed(F, place) ==
    LET vdf == place \o <<"steamapps", "libraryfolders.vdf">>
        acf == place \o <<"steamapps", ManifestName>>
        G == IF Stat(F, vdf).kind = "file"
             THEN Put(F, vdf, File(WellFormedLines(Stat(F, vdf).data)))
             ELSE F
    IN IF Stat(G, acf).kind = "file"
       THEN Put(G, acf, File(WellFormedLines(Stat(G, acf).data)))
       ELSE G

\* C20, the libraries: a line of the descriptor with the path key and no
\* quoted value changes nothing in the libraries that are read from it.
C20_LibrariesIgnoreMalformed ==
    \A root \in Places :
        get_library_folders(fs, root) = get_library_folders(WithoutMalformed(fs, root), root)

\* C20: malformed lines are ignored in the descriptor and in the manifest:
\* the values read from a text are those read from the text without its
\* malformed lines.
C20_MalformedIgnored ==
    \A place \in Places :
        /\ get_library_folders(fs, place) = get_library_folders(WithoutMalformed(fs, place), place)
        /\ parse_app_manifest(fs, place \o <<"steamapps", ManifestName>>)
               = parse_app_manifest(WithoutMalformed(fs, place),
                                    place \o <<"steamapps", ManifestName>>)

\* the detect button found nothing although the manifest of root C gives
\* an install directory and a build id, because a later line has the
\* installdir key and no value
C20_Witness ==
    /\ last.op = "detect_steam"
    /\ ~steam_info.some
    /\ exists(fs, Append(SteamC, "steam.exe"))
    /\ ManifestOf(fs, SteamC).kind = "file"
    /\ ManifestOf(fs, SteamC).data = <<KeyValue("installdir", "Battlefield 6"),
                                       KeyValue("buildid", "100"),
                                       KeyOnly("installdir")>>

-----------------------------------------------------------------------------
\* C16, the part that holds: restore_files reports success only when every
\* folder and every file of the scan was processed and there was at least
\* one, and a failure it reports is flagged as an error.
C16_SuccessMeansAllProcessed ==
    [][Step("restore_files")
          => /\ status_message'.kind = "Restored"
                 => /\ status_message'.n1 = Len(last'.scan.folders)
                    /\ status_message'.n2 = Len(last'.scan.toc_files)
                    /\ status_message'.n1 + status_message'.n2 > 0
                    /\ ~is_error'
             /\ status_message'.kind \in {"CreateDirFailed", "LinkFailed", "RestoreFailed"}
                 => is_error']_vars

\* C16: in restore_files the first failing link creation or file copy is
\* the outcome reported, also when it is the first entry; that the backup
\* holds no voice files is reported only when the scan of the snapshot
\* gives no folder and no file; success is reported only when every entry
\* was processed and at least one was restored.
C16_FirstFailureReported ==
    [][Step("restore_files")
          => /\ status_message'.kind = "NothingInBackup"
                 => last'.scan.folders = <<>> /\ last'.scan.toc_files = <<>>
             /\ status_message'.kind = "Restored"
                 => /\ status_message'.n1 = Len(last'.scan.folders)
                    /\ status_message'.n2 = Len(last'.scan.toc_files)
                    /\ status_message'.n1 + status_message'.n2 > 0]_vars

\* restore_files has told that the backup holds no voice files although the
\* scan of the snapshot gave a folder: the link for the first folder failed
\* and nothing is linked under the game root
C16_Witness ==
    /\ last.op = "restore_files"
    /\ status_message.kind = "NothingInBackup"
    /\ is_error
    /\ last.scan.folders # <<>>
    /\ LStat(fs, source_path \o last.scan.folders[1]).kind # "link"

-----------------------------------------------------------------------------
\* the entries delete_voice_files works on, in the order it takes them
DeleteOrder(scan) == scan.folders \o scan.toc_files

\* the entry is one delete_voice_files removes and it is still there after
StillThere(F, G, root, scan, k) ==
    LET rel == DeleteOrder(scan)[k]
    IN /\ IF k <= Len(scan.folders) THEN is_junction(F, root \o rel)
          ELSE exists(F, root \o rel)
       /\ LStat(G, root \o rel).kind # "none"

\* C17, the part that holds: when delete_voice_files reports that an entry
\* could not be deleted, the error flag is set, that entry and every later
\* one are as they were, and the junctions and files before it are gone.
C17_ReportedFailureAborts ==
    [][(Step("delete_voice_files") /\ status_message'.kind = "DeleteFailed")
          => /\ is_error'
             /\ \E k \in 1..Len(DeleteOrder(last'.scan)) :
                    /\ PathStr(DeleteOrder(last'.scan)[k]) = status_message'.s1
                    /\ StillThere(fs, fs', source_path, last'.scan, k)
                    /\ \A j \in k..Len(DeleteOrder(last'.scan)) :
                           LStat(fs', source_path \o DeleteOrder(last'.scan)[j])
                               = LStat(fs, source_path \o DeleteOrder(last'.scan)[j])
                    /\ \A j \in 1..(k - 1) :
                           ~StillThere(fs, fs', source_path, last'.scan, j)]_vars

\* C17: in delete_voice_files a junction that cannot be removed or a .toc
\* file that cannot be deleted aborts the operation with a failure: success
\* is not reported and no later entry is touched.
C17_RemovalFailureAborts ==
    [][Step("delete_voice_files")
          => \A k \in 1..Len(DeleteOrder(last'.scan)) :
                 StillThere(fs, fs', source_path, last'.scan, k)
                     => /\ status_message'.kind = "DeleteFailed"
                        /\ is_error'
                        /\ \A j \in k..Len(DeleteOrder(last'.scan)) :
                               LStat(fs', source_path \o DeleteOrder(last'.scan)[j])
                                   = LStat(fs, source_path \o DeleteOrder(last'.scan)[j])]_vars

\* delete_voice_files reported success and deleted a .toc file although a
\* junction it took before that file is still in the game folder
C17_Witness ==
    /\ last.op = "delete_voice_files"
    /\ status_message.kind = "Deleted"
    /\ ~is_error
    /\ status_message.n2 >= 1
    /\ \E rel \in Range(last.scan.folders) : is_junction(fs, source_path \o rel)
    /\ \A rel \in Range(last.scan.toc_files) : ~exists(fs, source_path \o rel)

-----------------------------------------------------------------------------
\* the entries backup_files copies, in the order it takes them
CopyOrder(scan) == scan.folders \o scan.toc_files

\* entry k of the scan is in the snapshot G as the game folder F had it
Copied(F, G, root, lang_code, scan, k) ==
    LET rel == CopyOrder(scan)[k]
    IN IF k <= Len(scan.folders)
       THEN RawAt(G, SnapshotPath(lang_code) \o rel)
                = Resolved(F, Stat(F, root \o rel), MaxLinkHops)
       ELSE /\ Stat(G, SnapshotPath(lang_code) \o rel).kind = "file"
            /\ Stat(G, SnapshotPath(lang_code) \o rel) = Stat(F, root \o rel)

\* C18: backup_files copies the folders before the .toc files, and the
\* first directory creation or copy that fails aborts the rest: the
\* entries before the failing one are in the snapshot directory and stay
\* there, no later folder or file is copied, no manifest is written and
\* the outcome is a failure.
C18_CaptureAbortsOnFirstFailure ==
    [][(/\ Step("backup_files")
        /\ status_message'.kind \in {"CreateDirFailed", "BackupFailed"})
          => /\ is_error'
             /\ available_backups' = available_backups
             /\ ~exists(fs', Append(SnapshotPath(last'.lang_code), InfoName))
             /\ \E k \in 1..Len(CopyOrder(last'.scan)) :
                    /\ status_message'.kind = "BackupFailed"
                           => status_message'.s1 = PathStr(CopyOrder(last'.scan)[k])
                    /\ \A j \in 1..(k - 1) :
                           Copied(fs, fs', source_path, last'.lang_code, last'.scan, j)
                    /\ \A j \in k..Len(CopyOrder(last'.scan)) :
                           LStat(fs', SnapshotPath(last'.lang_code) \o CopyOrder(last'.scan)[j]).kind
                               = "none"]_vars

\* backup_files failed on an entry after the first: the first folder is in
\* the snapshot directory, there is no manifest, the error flag is set
C18_Witness ==
    /\ last.op = "backup_files"
    /\ status_message.kind = "BackupFailed"
    /\ is_error
    /\ Len(CopyOrder(last.scan)) >= 2
    /\ status_message.s1 # PathStr(CopyOrder(last.scan)[1])
    /\ LStat(fs, SnapshotPath(last.lang_code) \o last.scan.folders[1]).kind = "dir"
    /\ ~exists(fs, Append(SnapshotPath(last.lang_code), InfoName))

-----------------------------------------------------------------------------
\* the state a successful restore left, its backup still the selected one
\* and its folders still link points under the source path
ActivatedBefore ==
    /\ last.op = "restore_files"
    /\ status_message.kind = "Restored"
    /\ available_backups # <<>>
    /\ SelectedBackup.lang_code = last.lang_code
    /\ Activated(fs, source_path, last.lang_code, last.scan)

\* C19: restore_files replaces a junction that is already at a folder's
\* destination: after a restore that reports success every folder of the
\* scan is a junction to its copy in the snapshot, whatever junction was
\* there before; a folder is never copied, an ordinary directory at a
\* destination after the restore was there before it; and a restore run
\* again on the state a successful restore left succeeds, when no I/O call
\* fails, and leaves the file system and the message as they were.
C19_ActivateTwice ==
    /\ [][Step("restore_files")
             => /\ status_message'.kind = "Restored"
                    => \A rel \in Range(last'.scan.folders) :
                           LStat(fs', source_path \o rel)
                               = Link(SnapshotPath(last'.lang_code) \o rel)
                /\ \A rel \in Range(last'.scan.folders) :
                       LStat(fs', source_path \o rel).kind = "dir"
                           => LStat(fs', source_path \o rel) = LStat(fs, source_path \o rel)
                /\ (ActivatedBefore /\ status_message'.kind = "Restored")
                    => fs' = fs /\ status_message' = status_message]_vars
    /\ [](ActivatedBefore
             => \A rev \in BOOLEAN :
                    LET out == RestoreRun(fs, source_path, available_backups,
                                          selected_backup_idx, steam_info, NoFault, rev)
                    IN /\ out.msg = status_message
                       /\ ~out.is_error
                       /\ out.fs = fs)

\* a restore has run on the state a successful restore of the same
\* language left, with its junctions in place, and has succeeded
C19_Witness ==
    /\ last.op = "restore_files"
    /\ last.again
    /\ status_message.kind = "Restored"
    /\ status_message.n1 >= 1
    /\ Activated(fs, source_path, last.lang_code, last.scan)

-----------------------------------------------------------------------------
\* the folders the scan of the game root found are junctions into the
\* snapshot of the language, as a restore of that language leaves them
LinkedIntoOwnSnapshot(F, root, lang_code, scan) ==
    /\ scan.folders # <<>>
    /\ \A rel \in Range(scan.folders) :
           /\ LStat(F, root \o rel) = Link(SnapshotPath(lang_code) \o rel)
           /\ Stat(F, SnapshotPath(lang_code) \o rel).kind = "dir"

\* C21: backup_files of a language whose folders under the game root are
\* junctions into its own snapshot loses nothing: whatever it reports, the
\* snapshot holds afterwards the content those folders had before.
C21_CaptureKeepsActivatedContent ==
    [][(/\ Step("backup_files")
        /\ LinkedIntoOwnSnapshot(fs, source_path, last'.lang_code, last'.scan))
          => \A rel \in Range(last'.scan.folders) :
                 Stat(fs', SnapshotPath(last'.lang_code) \o rel)
                     = Stat(fs, source_path \o rel)]_vars

\* C21, what the code keeps: the content survives when the old snapshot
\* could not be removed, and only then.
C21_ContentKeptOnlyIfRemovalFails ==
    [][(/\ Step("backup_files")
        /\ LinkedIntoOwnSnapshot(fs, source_path, last'.lang_code, last'.scan))
          => IF status_message'.kind = "RemoveOldFailed"
             THEN fs' = fs
             ELSE /\ is_error'
                  /\ \A rel \in Range(last'.scan.folders) :
                         /\ Stat(fs', SnapshotPath(last'.lang_code) \o rel).kind = "none"
                         /\ Stat(fs', source_path \o rel).kind = "none"]_vars

\* backup_files has run on a language restored just before: it reports a
\* failed copy, the snapshot folder is gone and the junction under the game
\* root points at nothing
C21_Witness ==
    /\ last.op = "backup_files"
    /\ status_message.kind = "BackupFailed"
    /\ last.scan.folders # <<>>
    /\ \A rel \in Range(last.scan.folders) :
           /\ LStat(fs, source_path \o rel) = Link(SnapshotPath(last.lang_code) \o rel)
           /\ LStat(fs, SnapshotPath(last.lang_code) \o rel).kind = "none"

-----------------------------------------------------------------------------
\* the junctions under the game root that point into the backup directory:
\* no disk starts with one, restore_files makes them
ActivationLinks(F) ==
    {p \in Paths(Stat(F, GameRoot)) :
         /\ LStat(F, GameRoot \o p).kind = "link"
         /\ IsPrefix(backup_dir, LStat(F, GameRoot \o p).target)}

DanglingLinks(F) ==
    {p \in ActivationLinks(F) : Stat(F, LStat(F, GameRoot \o p).target).kind # "dir"}

\* C22: no dangling links: in every reachable state every junction under
\* the game root that restore_files created points to a snapshot folder
\* that is still in the backup directory.
C22_NoDanglingLinks == DanglingLinks(fs) = {}

\* C22, what the code keeps: restore_files and delete_voice_files leave no
\* dangling junction when there was none before.
C22_RestoreAndDeleteKeepLinksLive ==
    [][((Step("restore_files") \/ Step("delete_voice_files")) /\ DanglingLinks(fs) = {})
          => DanglingLinks(fs') = {}]_vars

\* delete_backup has removed the snapshot a junction under the game root
\* points into, and reported success
C22_Witness ==
    /\ last.op = "delete_backup"
    /\ status_message.kind = "BackupDeleted"
    /\ ~is_error
    /\ DanglingLinks(fs) # {}
    /\ ~exists(fs, SnapshotPath(last.lang_code))

-----------------------------------------------------------------------------
\* C23: restore_files never removes, replaces or writes into an ordinary
\* directory at the destination of a folder of its scan: such a directory
\* and everything in it are the same after the call as before, whatever
\* the call reports.
C23_ActivateKeepsOrdinaryDirectories ==
    [][Step("restore_files")
          => \A rel \in OrdinaryFolders(fs, source_path, last'.scan) :
                 LStat(fs', source_path \o rel) = LStat(fs, source_path \o rel)]_vars

\* restore_files has run on a game root where a folder of the snapshot has
\* an ordinary directory at its destination: the directory is still there
\* with its content and an error is reported
C23_Witness ==
    /\ last.op = "restore_files"
    /\ is_error
    /\ PastVersionCheck(status_message.kind)
    /\ \E rel \in OrdinaryFolders(fs, source_path, last.scan) :
           DOMAIN LStat(fs, source_path \o rel).ents # {}

-----------------------------------------------------------------------------
\* the list is what refresh_backups reads from file system F, in one of
\* the orders the directory can be listed in
ListIsCurrent(F, list) == \E rev \in BOOLEAN : list = refresh_backups(F, NoFault, rev)

\* the list is a reading of F, a read of a manifest possibly failing
ListIsAReading(F, list) ==
    \E f \in RefreshFaults, rev \in BOOLEAN : list = refresh_backups(F, f, rev)

\* C24: the cached backup list is never stale: after backup_files,
\* restore_files, delete_voice_files, delete_backup and refresh_backups
\* return, with success or not, available_backups is what refresh_backups
\* reads from the backup directory at that moment.
C24_ListNeverStale ==
    [][(ops' = ops + 1)
          => IF last'.op = "refresh_backups"
             THEN ListIsAReading(fs', available_backups')
             ELSE ListIsCurrent(fs', available_backups')]_vars

\* C24, what the code keeps: a handler that starts with a current list
\* ends with a current list, except backup_files when a directory creation
\* or a copy fails after the old snapshot was removed or part of the new
\* one was made.
C24_StaleOnlyAfterFailedBackup ==
    [][(/\ ops' = ops + 1
        /\ last'.op # "refresh_backups"
        /\ ListIsCurrent(fs, available_backups))
          => \/ ListIsCurrent(fs', available_backups')
             \/ /\ last'.op = "backup_files"
                /\ status_message'.kind \in {"CreateDirFailed", "BackupFailed"}
                /\ available_backups' = available_backups]_vars

\* backup_files has failed after removing the old snapshot: the list still
\* gives the build id of the snapshot that is gone, and the directory on
\* disk has no manifest
C24_Witness ==
    /\ last.op = "backup_files"
    /\ status_message.kind = "BackupFailed"
    /\ ~ListIsCurrent(fs, available_backups)
    /\ \E i \in 1..Len(available_backups) :
           /\ available_backups[i] = BackupInfo(last.lang_code, "100")
           /\ ~exists(fs, Append(SnapshotPath(last.lang_code), InfoName))

-----------------------------------------------------------------------------
\* nothing of the activation is left under the root in file system G: no
\* folder and no .toc file of the restore's scan, and a scan for the
\* language finds no junction and no .toc file
Deactivated(G, root, lang_code, scan) ==
    /\ \A rel \in Range(scan.folders) \cup Range(scan.toc_files) :
           LStat(G, root \o rel).kind = "none"
    /\ \A rev \in BOOLEAN :
           LET after == find_voice_files(G, root, lang_code, rev)
           IN /\ after.toc_files = <<>>
              /\ \A rel \in Range(after.folders) : ~is_junction(G, root \o rel)

\* the state a successful restore left, its folders junctions into the
\* snapshot, and the step a delete_voice_files for the same language that
\* reports success
ActivateThenDeactivate ==
    /\ last.op = "restore_files"
    /\ status_message.kind = "Restored"
    /\ Activated(fs, source_path, last.lang_code, last.scan)
    /\ Step("delete_voice_files")
    /\ last'.lang_code = last.lang_code
    /\ status_message'.kind = "Deleted"

\* C25: a restore followed by a delete_voice_files of the same language on
\* the same game root that reports success undoes the activation: no
\* junction and no .toc file of it remains under the game root, and the
\* backup directory is unchanged by both handlers.
C25_DeactivateUndoesActivate ==
    /\ [][ActivateThenDeactivate
             => /\ Deactivated(fs', source_path, last.lang_code, last.scan)
                /\ LStat(fs', backup_dir) = LStat(fs, backup_dir)]_vars
    /\ [][Step("restore_files") => LStat(fs', backup_dir) = LStat(fs, backup_dir)]_vars

\* C25, what the code keeps: neither handler changes the backup directory,
\* and in the state a successful restore left a delete_voice_files of the
\* same language in which no I/O call fails reports success and undoes
\* the activation.
C25_UndoneWhenNothingFails ==
    /\ [][(Step("restore_files") \/ Step("delete_voice_files"))
             => LStat(fs', backup_dir) = LStat(fs, backup_dir)]_vars
    /\ []((/\ last.op = "restore_files"
           /\ status_message.kind = "Restored"
           /\ Activated(fs, source_path, last.lang_code, last.scan))
             => \A rev \in BOOLEAN :
                    LET out == DeleteVoiceRun(fs, source_path, last.lang_code, NoFault, rev)
                    IN /\ out.msg.kind = "Deleted"
                       /\ out.msg.n1 = Len(last.scan.folders)
                       /\ Deactivated(out.fs, source_path, last.lang_code, last.scan))

\* delete_voice_files has reported success while a junction into the
\* snapshot of its language, made by a restore, is still under the game
\* root
C25_Witness ==
    /\ last.op = "delete_voice_files"
    /\ status_message.kind = "Deleted"
    /\ status_message.n1 >= 1
    /\ \E rel \in Range(last.scan.folders) :
           LStat(fs, source_path \o rel) = Link(SnapshotPath(last.lang_code) \o rel)

-----------------------------------------------------------------------------
\* C26: the selection indexes are always in range: selected_lang_idx is
\* below the number of languages, 8, and whenever available_backups is not
\* empty selected_backup_idx is below its length, so that no handler
\* indexes lang_codes or available_backups out of bounds.
C26_IndicesInRange ==
    /\ Len(lang_codes) = 8
    /\ selected_lang_idx \in 0..(Len(lang_codes) - 1)
    /\ selected_backup_idx >= 0
    /\ available_backups # <<>> => selected_backup_idx < Len(available_backups)

\* delete_backup has removed one of two snapshots after the language and
\* the backup selections were changed: one record is left and the index
\* is back on it
C26_Witness ==
    /\ last.op = "delete_backup"
    /\ status_message.kind = "BackupDeleted"
    /\ Len(available_backups) = 1
    /\ selected_backup_idx = 0
    /\ available_backups[1].lang_code # last.lang_code

=============================================================================
